---- MODULE Spec2Model ----
(***************************************************************************)
(* A model of the mdoc library vess-id/mdl: the IssuerSigned <-> MDoc      *)
(* bridge (IssuerSignedDocument.encodeIssuerSigned, parseIssuerSigned),    *)
(* the DeviceResponse parser (parse), IssuerAuth and the document builder. *)
(*                                                                         *)
(* JavaScript values are records tagged by t ("Str", "Int", "Bytes",       *)
(* "Array", "Map", "Object", "DataItem", "Undefined", "Null"); CBOR data   *)
(* items, the content of byte strings, are records tagged by c ("tstr",    *)
(* "int", "bstr", "array", "map", "record", "tag24", "undef", "null",      *)
(* "raw").  A Buffer is a Bytes value holding the item it encodes, or a    *)
(* "raw" item: bytes that are not well-formed CBOR.                        *)
(***************************************************************************)
EXTENDS Integers, Sequences, FiniteSets, TLC

VARIABLES builder, doc, wire, outcome

vars == <<builder, doc, wire, outcome>>

-----------------------------------------------------------------------------
(* JavaScript values *)

Undefined == [t |-> "Undefined"]
Null == [t |-> "Null"]
JStr(s) == [t |-> "Str", s |-> s]
JInt(n) == [t |-> "Int", n |-> n]
JBytes(w) == [t |-> "Bytes", w |-> w]
JArr(items) == [t |-> "Array", items |-> items]
JMap(entries) == [t |-> "Map", entries |-> entries]
JObj(entries) == [t |-> "Object", entries |-> entries]
JDataItem(buffer) == [t |-> "DataItem", buffer |-> buffer]

(* CBOR data items *)

WTstr(s) == [c |-> "tstr", s |-> s]
WInt(n) == [c |-> "int", n |-> n]
WBstr(w) == [c |-> "bstr", w |-> w]
WArr(items) == [c |-> "array", items |-> items]
WMap(pairs) == [c |-> "map", pairs |-> pairs]
WRec(pairs) == [c |-> "record", pairs |-> pairs]
WTag24(w) == [c |-> "tag24", w |-> w]
WUndef == [c |-> "undef"]
WNull == [c |-> "null"]
WRaw(n) == [c |-> "raw", n |-> n]
\* the content of an empty byte string, new Uint8Array()
WEmpty == [c |-> "empty"]
\* the signature a signer computes over the bytes w
WSig(w) == [c |-> "sig", over |-> w]
\* the random salt drawn for the item digestID of a namespace
WSalt(ns, digestID) == [c |-> "salt", ns |-> ns, n |-> digestID]
\* the digest of the bytes w under a digest algorithm
WDigest(alg, w) == [c |-> "digest", alg |-> alg, of |-> w]

(* Outcomes of an operation: a value or a thrown error *)

Ok(v) == [ok |-> TRUE, val |-> v]
Throw(type, message) == [ok |-> FALSE, err |-> [type |-> type, message |-> message]]

None == [t |-> "None"]

\* Statement sequencing: go on with the value of r, or end with the error r
\* threw
Bind(r, f(_)) == IF r.ok THEN f(r.val) ELSE r

\* The values of a sequence of outcomes, or the first error among them
Collect(rs) ==
  LET bad == {i \in 1..Len(rs) : ~rs[i].ok}
  IN  IF bad = {} THEN Ok([i \in 1..Len(rs) |-> rs[i].val])
      ELSE rs[CHOOSE i \in bad : \A j \in bad : i <= j]

-----------------------------------------------------------------------------
(* Ordered entries: Map.has / Map.get, the `in` operator and property read *)

HasKey(entries, k) == \E i \in 1..Len(entries) : entries[i][1] = k

GetKey(entries, k) ==
  IF HasKey(entries, k)
    THEN entries[CHOOSE i \in 1..Len(entries) : entries[i][1] = k][2]
    ELSE Undefined

\* obj[k] = v on an object or map.set(k, v) on a Map: an existing key keeps its place
SetKey(entries, k, v) ==
  IF HasKey(entries, k)
    THEN [i \in 1..Len(entries) |-> IF entries[i][1] = k THEN <<k, v>> ELSE entries[i]]
    ELSE Append(entries, <<k, v>>)

RECURSIVE SetAll(_, _)
SetAll(entries, more) ==
  IF more = <<>> THEN entries
  ELSE SetAll(SetKey(entries, more[1][1], more[1][2]), Tail(more))

\* Object.fromEntries / spreading entries into a fresh object
FromEntries(entries) == JObj(SetAll(<<>>, entries))

Truthy(v) ==
  /\ v.t \notin {"Undefined", "Null"}
  /\ (v.t = "Str" => v.s # "")
  /\ (v.t = "Int" => v.n # 0)

-----------------------------------------------------------------------------
(* The CBOR layer (src/cbor of the repository, spec section 4.1) *)

\* Map keys in deterministic order: shorter encoded keys first, then bytewise
CanonicalKeyOrder ==
  << WInt(0), WInt(1), WInt(2), WInt(3), WInt(4), WInt(-1), WInt(-2), WInt(-3),
     WInt(33),
     WTstr("data"), WTstr("random"), WTstr("signed"), WTstr("status"),
     WTstr("docType"), WTstr("version"), WTstr("digestID"),
     WTstr("deviceKey"), WTstr("deviceMac"), WTstr("documents"),
     WTstr("validFrom"), WTstr("deviceAuth"), WTstr("given_name"),
     WTstr("issuerAuth"), WTstr("nameSpaces"), WTstr("validUntil"),
     WTstr("family_name"), WTstr("deviceSigned"), WTstr("elementValue"),
     WTstr("issuerSigned"), WTstr("validityInfo"), WTstr("valueDigests"),
     WTstr("deviceKeyInfo"), WTstr("org.example.ns"), WTstr("deviceSignature"),
     WTstr("digestAlgorithm"), WTstr("validityDigests"),
     WTstr("elementIdentifier"), WTstr("org.iso.18013.5.1") >>

SortPairs(pairs) ==
  LET present(k) == HasKey(pairs, k)
      keys == SelectSeq(CanonicalKeyOrder, present)
  IN  [i \in 1..Len(keys) |-> <<keys[i], GetKey(pairs, keys[i])>>]

\* The data item a value encodes to.  Maps and plain objects both become CBOR
\* maps; a DataItem is written as tag 24 over the bytes it already holds.
RECURSIVE EncodeItem(_)
EncodeItem(v) ==
  CASE v.t = "Str" -> WTstr(v.s)
    [] v.t = "Int" -> WInt(v.n)
    [] v.t = "Bytes" -> WBstr(v.w)
    [] v.t = "Array" -> WArr([i \in 1..Len(v.items) |-> EncodeItem(v.items[i])])
    [] v.t \in {"Map", "Object"} ->
         WMap(SortPairs([i \in 1..Len(v.entries) |->
                <<EncodeItem(v.entries[i][1]), EncodeItem(v.entries[i][2])>>]))
    [] v.t = "DataItem" -> WTag24(v.buffer)
    [] v.t = "Null" -> WNull
    [] OTHER -> WUndef

\* The native value of a well-formed data item.  A CBOR map becomes a Map, a
\* record-structured item a plain object, tag 24 a DataItem keeping its bytes.
RECURSIVE DecodeItem(_)
DecodeItem(w) ==
  CASE w.c = "tstr" -> JStr(w.s)
    [] w.c = "int" -> JInt(w.n)
    [] w.c = "bstr" -> JBytes(w.w)
    [] w.c = "array" -> JArr([i \in 1..Len(w.items) |-> DecodeItem(w.items[i])])
    [] w.c = "map" ->
         JMap([i \in 1..Len(w.pairs) |->
                <<DecodeItem(w.pairs[i][1]), DecodeItem(w.pairs[i][2])>>])
    [] w.c = "record" ->
         JObj([i \in 1..Len(w.pairs) |->
                <<DecodeItem(w.pairs[i][1]), DecodeItem(w.pairs[i][2])>>])
    [] w.c = "tag24" -> JDataItem(w.w)
    [] w.c = "null" -> Null
    [] OTHER -> Undefined

cborEncode(v) == JBytes(EncodeItem(v))

cborDecode(b) ==
  IF b.t # "Bytes" THEN Throw("TypeError", <<"source must be a buffer">>)
  ELSE IF b.w.c \in {"raw", "empty", "sig", "salt", "digest"}
    THEN Throw("CborDecodeError", <<"Unexpected end of CBOR data">>)
  ELSE Ok(DecodeItem(b.w))

\* DataItem.data: the lazily decoded content of the bytes under tag 24
DataItem_data(di) == cborDecode(JBytes(di.buffer))

\* DataItem.fromData
DataItem_fromData(data) == JDataItem(EncodeItem(data))

\* x.entries() for a Map or an Array, as a sequence of <<key, value>>
EntriesOf(x) ==
  IF x.t = "Map" THEN Ok(x.entries)
  ELSE IF x.t = "Array" THEN Ok([i \in 1..Len(x.items) |-> <<JInt(i - 1), x.items[i]>>])
  ELSE Throw("TypeError", <<"entries is not a function">>)

\* x[key] for a value that is not a Map
PropGet(x, key) ==
  IF x.t \in {"Undefined", "Null"}
    THEN Throw("TypeError", <<"Cannot read properties of ", x.t>>)
  ELSE IF x.t = "Object" THEN Ok(GetKey(x.entries, key))
  ELSE IF x.t = "DataItem" /\ key = JStr("data") THEN DataItem_data(x)
  ELSE Ok(Undefined)

\* x.get(key): only a Map has the method
MapGet(x, key) ==
  IF x.t = "Map" THEN Ok(GetKey(x.entries, key))
  ELSE IF x.t \in {"Undefined", "Null"}
    THEN Throw("TypeError", <<"Cannot read properties of ", x.t>>)
  ELSE Throw("TypeError", <<"get is not a function">>)

\* x.has(key)
MapHas(x, key) ==
  IF x.t = "Map" THEN Ok(HasKey(x.entries, key))
  ELSE IF x.t \in {"Undefined", "Null"}
    THEN Throw("TypeError", <<"Cannot read properties of ", x.t>>)
  ELSE Throw("TypeError", <<"has is not a function">>)

\* key in x: a TypeError on a primitive
KeyInOp(x, key) ==
  IF x.t \in {"Undefined", "Null", "Str", "Int"}
    THEN Throw("TypeError", <<"Cannot use 'in' operator">>)
  ELSE Ok(x.t = "Object" /\ HasKey(x.entries, key))

\* [...x]: the spread of an array
Spread(x) ==
  IF x.t = "Array" THEN Ok(x.items) ELSE Throw("TypeError", <<"not iterable">>)

At(items, i) == IF i <= Len(items) THEN items[i] ELSE Undefined

\* Object.fromEntries(x)
ObjectFromEntries(x) ==
  IF x.t = "Map" THEN Ok(FromEntries(x.entries))
  ELSE IF x.t = "Array" /\ \A i \in 1..Len(x.items) : x.items[i].t = "Array"
    THEN Ok(FromEntries([i \in 1..Len(x.items) |->
              <<At(x.items[i].items, 1), At(x.items[i].items, 2)>>]))
  ELSE Throw("TypeError", <<"object is not iterable">>)

-----------------------------------------------------------------------------
(* compare-versions, as parseIssuerAuthElement uses it *)

\* The numeric segments of a version string; <<>> for a string the semver
\* pattern of compare-versions rejects
SemverSegments(s) ==
  CASE s = "1.0" -> <<1, 0>>
    [] s = "1.0.0" -> <<1, 0, 0>>
    [] s = "1" -> <<1>>
    [] s = "1.1" -> <<1, 1>>
    [] s = "0.9" -> <<0, 9>>
    [] OTHER -> <<>>

Segment(segs, i) == IF i <= Len(segs) THEN segs[i] ELSE 0

MaxOf(a, b) == IF a >= b THEN a ELSE b

RECURSIVE CompareSegments(_, _, _)
CompareSegments(a, b, i) ==
  IF i > MaxOf(Len(a), Len(b)) THEN 0
  ELSE IF Segment(a, i) > Segment(b, i) THEN 1
  ELSE IF Segment(b, i) > Segment(a, i) THEN -1
  ELSE CompareSegments(a, b, i + 1)

compareVersions(v1, v2) ==
  IF v1.t # "Str" \/ v2.t # "Str"
    THEN Throw("TypeError", <<"Invalid argument expected string">>)
  ELSE IF SemverSegments(v1.s) = <<>> \/ SemverSegments(v2.s) = <<>>
    THEN Throw("Error", <<"Invalid argument not valid semver">>)
  ELSE Ok(CompareSegments(SemverSegments(v1.s), SemverSegments(v2.s), 1))

-----------------------------------------------------------------------------
(* IssuerAuth: a COSE_Sign1 whose payload is the tag-24 bytes of the MSO *)

Sign1(protectedHeaders, encodedProtectedHeaders, unprotectedHeaders, payload, signature) ==
  [protectedHeaders |-> protectedHeaders,
   encodedProtectedHeaders |-> encodedProtectedHeaders,
   unprotectedHeaders |-> unprotectedHeaders, payload |-> payload,
   signature |-> signature]

\* new IssuerAuth(protectedHeader, unprotectedHeader, payload, signature):
\* protected headers given as bytes are kept as the encoded form and decoded,
\* given as a map they are encoded
IssuerAuth_new(protectedHeader, unprotectedHeader, payload, signature) ==
  IF protectedHeader.t # "Bytes"
    THEN Ok(Sign1(protectedHeader, cborEncode(protectedHeader), unprotectedHeader,
                  payload, signature))
  ELSE IF protectedHeader.w = WEmpty
    THEN Ok(Sign1(JMap(<<>>), protectedHeader, unprotectedHeader, payload, signature))
  ELSE Bind(cborDecode(protectedHeader), LAMBDA decoded :
         Ok(Sign1(decoded, protectedHeader, unprotectedHeader, payload, signature)))

\* new IssuerAuth(...raw), new Sign1(...raw), new Mac0(...raw)
IssuerAuth_fromRaw(raw) ==
  Bind(Spread(raw), LAMBDA items :
    IssuerAuth_new(At(items, 1), At(items, 2), At(items, 3), At(items, 4)))

\* Sign1.getContentForEncoding
getContentForEncoding(ia) ==
  JArr(<<ia.encodedProtectedHeaders, ia.unprotectedHeaders, ia.payload, ia.signature>>)

\* One entry of validityInfo: a byte-string value is decoded, another kept
ValidityEntry(e) ==
  IF e[2].t = "Bytes" THEN Bind(cborDecode(e[2]), LAMBDA v : Ok(<<e[1], v>>))
  ELSE Ok(e)

mapValidityInfo(validityInfo) ==
  IF ~Truthy(validityInfo) THEN Ok(validityInfo)
  ELSE Bind(EntriesOf(validityInfo), LAMBDA entries :
       Bind(Collect([i \in 1..Len(entries) |-> ValidityEntry(entries[i])]), LAMBDA mapped :
         Ok(FromEntries(mapped))))

OptionalFromEntries(x) == IF Truthy(x) THEN ObjectFromEntries(x) ELSE Ok(x)

\* IssuerAuth.decodedPayload computed from the payload (the first read)
decodePayload(ia) ==
  Bind(cborDecode(ia.payload), LAMBDA d0 :
  Bind(IF d0.t = "DataItem" THEN DataItem_data(d0) ELSE Ok(d0), LAMBDA d1 :
  Bind(ObjectFromEntries(d1), LAMBDA decoded :
  Bind(mapValidityInfo(GetKey(decoded.entries, JStr("validityInfo"))), LAMBDA vi :
  Bind(OptionalFromEntries(GetKey(decoded.entries, JStr("validityDigests"))), LAMBDA vd :
  Bind(OptionalFromEntries(GetKey(decoded.entries, JStr("deviceKeyInfo"))), LAMBDA dk :
    Ok(JObj(SetAll(decoded.entries,
         << <<JStr("validityInfo"), vi>>,
            <<JStr("validityDigests"), vd>>,
            <<JStr("deviceKeyInfo"), dk>> >>)))))))))

\* The MSO object a decode allocates: the allocated-th object of the run
MSOObject(allocated, value) == [ref |-> allocated, value |-> value]

\* get decodedPayload that decodes the payload on every read
get_decodedPayloadAlwaysDecoding(ia, allocated) ==
  LET r == decodePayload(ia.sign1)
  IN  IF r.ok
        THEN [res |-> Ok(MSOObject(allocated + 1, r.val)),
              issuerAuth |-> [ia EXCEPT !.decodedPayload = MSOObject(allocated + 1, r.val)],
              decoded |-> 1]
      ELSE [res |-> r, issuerAuth |-> ia, decoded |-> 1]

\* get decodedPayload of an IssuerAuth ia = [sign1, decodedPayload]: the
\* object held in #decodedPayload when there is one; otherwise the payload is
\* decoded into a new object, which is stored and returned.  decoded counts
\* the calls of cborDecode(this.payload).
get_decodedPayload(ia, allocated) ==
  IF ia.decodedPayload # Undefined
    THEN [res |-> Ok(ia.decodedPayload), issuerAuth |-> ia, decoded |-> 0]
  ELSE LET r == decodePayload(ia.sign1)
       IN  IF r.ok
             THEN [res |-> Ok(MSOObject(allocated + 1, r.val)),
                   issuerAuth |-> [ia EXCEPT !.decodedPayload =
                                               MSOObject(allocated + 1, r.val)],
                   decoded |-> 1]
           ELSE [res |-> r, issuerAuth |-> ia, decoded |-> 1]

-----------------------------------------------------------------------------
(* parser.ts: the helpers of parse and parseIssuerSigned *)

MDLParseError(message) == Throw("MDLParseError", message)

\* The checks on the decoded MSO without the comparison of the docType
CheckMSOVersionOnly(issuerAuth, docType, version, expectedDocType) ==
  IF ~Truthy(version)
    THEN MDLParseError(<<"The issuerAuth version must be '1.0'">>)
  ELSE Bind(compareVersions(version, JStr("1.0")), LAMBDA cmp :
         IF cmp # 0 THEN MDLParseError(<<"The issuerAuth version must be '1.0'">>)
         ELSE Ok(issuerAuth))

\* The checks of parseIssuerAuthElement on the decoded MSO
CheckMSO(issuerAuth, docType, version, expectedDocType) ==
  IF docType # expectedDocType
    THEN MDLParseError(<<"The issuerAuth docType must be ", expectedDocType>>)
  ELSE IF ~Truthy(version)
    THEN MDLParseError(<<"The issuerAuth version must be '1.0'">>)
  ELSE Bind(compareVersions(version, JStr("1.0")), LAMBDA cmp :
         IF cmp # 0 THEN MDLParseError(<<"The issuerAuth version must be '1.0'">>)
         ELSE Ok(issuerAuth))

parseIssuerAuthElement(rawIssuerAuth, expectedDocType) ==
  Bind(IssuerAuth_fromRaw(rawIssuerAuth), LAMBDA issuerAuth :
  Bind(decodePayload(issuerAuth), LAMBDA decodedPayload :
    CheckMSO(issuerAuth, GetKey(decodedPayload.entries, JStr("docType")),
             GetKey(decodedPayload.entries, JStr("version")), expectedDocType)))

\* new IssuerSignedItem(di): the item wraps the DataItem it was given
IssuerSignedItem_new(di) == [dataItem |-> di]

\* namespaceToArray losing the last item of the namespace
namespaceToArrayLosingLast(entries) ==
  IF entries.t # "Array" THEN Throw("TypeError", <<"entries.map is not a function">>)
  ELSE Ok([i \in 1..(Len(entries.items) - 1) |-> IssuerSignedItem_new(entries.items[i])])

namespaceToArray(entries) ==
  IF entries.t # "Array" THEN Throw("TypeError", <<"entries.map is not a function">>)
  ELSE Ok([i \in 1..Len(entries.items) |-> IssuerSignedItem_new(entries.items[i])])

NameSpaceEntry(e) == Bind(namespaceToArray(e[2]), LAMBDA items : Ok(<<e[1], items>>))

\* The IssuerNameSpaces object, as the ordered sequence of its own properties
mapIssuerNameSpaces(namespace) ==
  Bind(EntriesOf(namespace), LAMBDA entries :
  Bind(Collect([i \in 1..Len(entries) |-> NameSpaceEntry(entries[i])]), LAMBDA mapped :
    Ok(SetAll(<<>>, mapped))))

-----------------------------------------------------------------------------
(* IssuerSignedDocument *)

IssuerSignedDocument_new(docType, issuerSigned) ==
  [class |-> "IssuerSignedDocument", docType |-> docType, issuerSigned |-> issuerSigned]

IssuerSigned(nameSpaces, issuerAuth) ==
  [t |-> "IssuerSigned", nameSpaces |-> nameSpaces, issuerAuth |-> issuerAuth]

\* The items of each namespace listed last to first
NameSpacesForEncodingReversed(ns) ==
  JMap([i \in 1..Len(ns) |->
    <<ns[i][1], JArr([j \in 1..Len(ns[i][2]) |->
                  ns[i][2][Len(ns[i][2]) + 1 - j].dataItem])>>])

\* new Map(Object.entries(this.issuerSigned?.nameSpaces ?? {}).map(...)):
\* each namespace with the DataItems of its items, in order
NameSpacesForEncoding(ns) ==
  JMap([i \in 1..Len(ns) |->
    <<ns[i][1], JArr([j \in 1..Len(ns[i][2]) |-> ns[i][2][j].dataItem])>>])

\* The two entries both prepare and prepareIssuerSigned write
IssuerSignedEntries(D) ==
  IF D.issuerSigned.t = "Undefined"
    THEN << <<JStr("nameSpaces"), NameSpacesForEncoding(<<>>)>>,
            <<JStr("issuerAuth"), Undefined>> >>
  ELSE << <<JStr("nameSpaces"), NameSpacesForEncoding(D.issuerSigned.nameSpaces)>>,
          <<JStr("issuerAuth"), getContentForEncoding(D.issuerSigned.issuerAuth)>> >>

\* prepare writing the namespaces without their items
prepareWithoutItems(D) ==
  JMap(<< <<JStr("docType"), D.docType>>,
          <<JStr("issuerSigned"),
            JObj(SetKey(IssuerSignedEntries(D), JStr("nameSpaces"),
                        NameSpacesForEncoding([i \in 1..Len(D.issuerSigned.nameSpaces) |->
                          <<D.issuerSigned.nameSpaces[i][1], <<>> >>])))>> >>)

\* prepare leaving the docType out
prepareWithoutDocType(D) ==
  JMap(<< <<JStr("issuerSigned"), JObj(IssuerSignedEntries(D))>> >>)

prepare(D) ==
  JMap(<< <<JStr("docType"), D.docType>>,
          <<JStr("issuerSigned"), JObj(IssuerSignedEntries(D))>> >>)

\* IssuerSignedItem.elementIdentifier and elementValue: read from the decoded
\* content of the item's DataItem
IssuerSignedItem_elementIdentifier(item) ==
  Bind(DataItem_data(item.dataItem), LAMBDA data : MapGet(data, JStr("elementIdentifier")))

IssuerSignedItem_elementValue(item) ==
  Bind(DataItem_data(item.dataItem), LAMBDA data : MapGet(data, JStr("elementValue")))

\* getIssuerNameSpace keeping the first value written under an identifier
getIssuerNameSpaceFirstWins(D, namespace) ==
  IF ~HasKey(D.issuerSigned.nameSpaces, namespace)
    THEN Throw("TypeError", <<"Cannot read properties of ", "Undefined">>)
  ELSE LET nameSpace == GetKey(D.issuerSigned.nameSpaces, namespace)
           n == Len(nameSpace)
       IN  Bind(Collect([i \in 1..n |->
                  Bind(IssuerSignedItem_elementIdentifier(nameSpace[n + 1 - i]), LAMBDA id :
                  Bind(IssuerSignedItem_elementValue(nameSpace[n + 1 - i]), LAMBDA value :
                    Ok(<<id, value>>)))]),
             LAMBDA entries : Ok(FromEntries(entries)))

\* Object.fromEntries(nameSpace.map(item => [item.elementIdentifier,
\* item.elementValue])); nameSpace is undefined for a namespace the document
\* does not hold
getIssuerNameSpace(D, namespace) ==
  IF ~HasKey(D.issuerSigned.nameSpaces, namespace)
    THEN Throw("TypeError", <<"Cannot read properties of ", "Undefined">>)
  ELSE LET nameSpace == GetKey(D.issuerSigned.nameSpaces, namespace)
       IN  Bind(Collect([i \in 1..Len(nameSpace) |->
                  Bind(IssuerSignedItem_elementIdentifier(nameSpace[i]), LAMBDA id :
                  Bind(IssuerSignedItem_elementValue(nameSpace[i]), LAMBDA value :
                    Ok(<<id, value>>)))]),
             LAMBDA entries : Ok(FromEntries(entries)))

\* Object.keys(this.issuerSigned.nameSpaces)
issuerSignedNameSpaces(D) ==
  [i \in 1..Len(D.issuerSigned.nameSpaces) |-> D.issuerSigned.nameSpaces[i][1]]

\* prepareIssuerSigned writing the docType as prepare does
prepareIssuerSignedWithDocType(D) ==
  JObj(<< <<JStr("docType"), D.docType>> >> \o IssuerSignedEntries(D))

prepareIssuerSigned(D) == JObj(IssuerSignedEntries(D))

\* The object under nameSpaces handing out the document's own namespaces
SharedNameSpacesObject(D) ==
  [ref |-> "this.issuerSigned.nameSpaces",
   value |-> NameSpacesForEncoding(D.issuerSigned.nameSpaces)]

\* The object prepareIssuerSigned returns under nameSpaces: the Map that
\* `new Map(...)` makes in the call, with arrays that `items.map` makes; no
\* object the document holds
NameSpacesObject(D) ==
  [ref |-> "new Map", value |-> NameSpacesForEncoding(D.issuerSigned.nameSpaces)]

encodeIssuerSigned(D) == cborEncode(prepareIssuerSigned(D))

-----------------------------------------------------------------------------
(* parseIssuerSigned, in the two forms the repository holds *)

\* typeof v === 'object'
TypeofObject(v) == v.t \in {"Array", "Map", "Object", "Bytes", "DataItem", "Null"}

MissingKeys == <<"Invalid IssuerSigned structure: missing nameSpaces or issuerAuth">>

\* The steps after the key check: parse issuerAuth, then nameSpaces, and
\* compose the document
IssuerSignedFrom(rawIssuerAuth, rawNameSpaces, docType) ==
  Bind(parseIssuerAuthElement(rawIssuerAuth, docType), LAMBDA issuerAuth :
  Bind(mapIssuerNameSpaces(rawNameSpaces), LAMBDA nameSpaces :
    Ok(IssuerSignedDocument_new(docType, IssuerSigned(nameSpaces, issuerAuth)))))

\* The steps after the decoding with issuerAuth parsed before the key check
IssuerSignedFromDecodedAuthFirst(decoded, docType) ==
  IF ~Truthy(decoded) \/ ~TypeofObject(decoded)
    THEN MDLParseError(<<"Invalid IssuerSigned CBOR">>)
  ELSE IF decoded.t # "Map"
    THEN MDLParseError(<<"IssuerSigned must be a CBOR Map">>)
  ELSE Bind(parseIssuerAuthElement(GetKey(decoded.entries, JStr("issuerAuth")), docType),
         LAMBDA issuerAuth :
           IF ~HasKey(decoded.entries, JStr("nameSpaces"))
              \/ ~HasKey(decoded.entries, JStr("issuerAuth"))
             THEN MDLParseError(MissingKeys)
           ELSE Bind(mapIssuerNameSpaces(GetKey(decoded.entries, JStr("nameSpaces"))),
                  LAMBDA nameSpaces :
                    Ok(IssuerSignedDocument_new(docType,
                         IssuerSigned(nameSpaces, issuerAuth)))))

\* src/mdoc/parser.ts, after the decoding
IssuerSignedFromDecoded(decoded, docType) ==
  IF ~Truthy(decoded) \/ ~TypeofObject(decoded)
    THEN MDLParseError(<<"Invalid IssuerSigned CBOR">>)
  ELSE IF decoded.t # "Map"
    THEN MDLParseError(<<"IssuerSigned must be a CBOR Map">>)
  ELSE IF ~HasKey(decoded.entries, JStr("nameSpaces"))
          \/ ~HasKey(decoded.entries, JStr("issuerAuth"))
    THEN MDLParseError(MissingKeys)
  ELSE IssuerSignedFrom(GetKey(decoded.entries, JStr("issuerAuth")),
                        GetKey(decoded.entries, JStr("nameSpaces")), docType)

parseIssuerSigned(issuerSignedCbor, docType) ==
  Bind(cborDecode(issuerSignedCbor), LAMBDA decoded :
    IssuerSignedFromDecoded(decoded, docType))

\* isMap ? decoded.has(key) : key in decoded, for a decoded with typeof 'object'
HasKeyEither(decoded, key) ==
  decoded.t \in {"Map", "Object"} /\ HasKey(decoded.entries, key)

\* isMap ? decoded.get(key) : decoded[key]
GetKeyEither(decoded, key) ==
  IF decoded.t \in {"Map", "Object"} THEN GetKey(decoded.entries, key) ELSE Undefined

\* the second form (src/unnamed/part_001), after the decoding: a Map or a
\* plain object is read
IssuerSignedFromMapOrObject(decoded, docType) ==
  IF ~Truthy(decoded) \/ ~TypeofObject(decoded)
    THEN MDLParseError(<<"Invalid IssuerSigned CBOR">>)
  ELSE IF decoded.t # "Map" /\ ~(TypeofObject(decoded) /\ decoded.t # "Null")
    THEN MDLParseError(<<"IssuerSigned must be a CBOR Map or Object">>)
  ELSE IF ~HasKeyEither(decoded, JStr("nameSpaces"))
          \/ ~HasKeyEither(decoded, JStr("issuerAuth"))
    THEN MDLParseError(MissingKeys)
  ELSE IssuerSignedFrom(GetKeyEither(decoded, JStr("issuerAuth")),
                        GetKeyEither(decoded, JStr("nameSpaces")), docType)

parseIssuerSignedMapOrObject(issuerSignedCbor, docType) ==
  Bind(cborDecode(issuerSignedCbor), LAMBDA decoded :
    IssuerSignedFromMapOrObject(decoded, docType))

-----------------------------------------------------------------------------
(* IssuerAuth.sign and IssuerAuth.signWithCallback *)

\* The alg header value written as the caller named it
AlgIdKeepingName(value) == value

\* The COSE algorithm identifier of an alg header value; other values are kept
AlgId(value) ==
  IF value = JStr("ES256") THEN JInt(-7)
  ELSE IF value = JStr("ES384") THEN JInt(-35)
  ELSE IF value = JStr("ES512") THEN JInt(-36)
  ELSE IF value = JStr("EdDSA") THEN JInt(-8)
  ELSE value

NaN == [t |-> "NaN"]

\* parseInt(key, 10) of a header name
ParseIntKey(key) ==
  CASE key = JStr("1") -> JInt(1)
    [] key = JStr("4") -> JInt(4)
    [] key = JStr("33") -> JInt(33)
    [] OTHER -> NaN

ProtectedHeadersMap(protectedHeaders) ==
  LET e == protectedHeaders.entries
  IN  JMap(SetAll(<<>>, [i \in 1..Len(e) |->
        IF e[i][1] = JStr("alg") THEN <<JInt(1), AlgId(e[i][2])>>
        ELSE <<ParseIntKey(e[i][1]), e[i][2]>>]))

\* The unprotected headers with kid written under the label of x5chain
UnprotectedHeadersMapKidAsX5chain(unprotectedHeaders) ==
  IF ~Truthy(unprotectedHeaders) THEN JMap(<<>>)
  ELSE IF unprotectedHeaders.t = "Map" THEN unprotectedHeaders
  ELSE LET e == unprotectedHeaders.entries
       IN  JMap(SetAll(<<>>, [i \in 1..Len(e) |->
             IF e[i][1] \in {JStr("x5chain"), JStr("kid")} THEN <<JInt(33), e[i][2]>>
             ELSE <<ParseIntKey(e[i][1]), e[i][2]>>]))

UnprotectedHeadersMap(unprotectedHeaders) ==
  IF ~Truthy(unprotectedHeaders) THEN JMap(<<>>)
  ELSE IF unprotectedHeaders.t = "Map" THEN unprotectedHeaders
  ELSE LET e == unprotectedHeaders.entries
       IN  JMap(SetAll(<<>>, [i \in 1..Len(e) |->
             IF e[i][1] = JStr("x5chain") THEN <<JInt(33), e[i][2]>>
             ELSE IF e[i][1] = JStr("kid") THEN <<JInt(4), e[i][2]>>
             ELSE <<ParseIntKey(e[i][1]), e[i][2]>>]))

\* Sign1.Signature1: the Sig_structure bytes
Signature1(encodedProtectedHeaders, externalAAD, payload) ==
  cborEncode(JArr(<<JStr("Signature1"), encodedProtectedHeaders, externalAAD, payload>>))

SigningContext(data, protectedHeaders, unprotectedHeaders, algorithm, payload) ==
  [t |-> "Context", data |-> data, protectedHeaders |-> protectedHeaders,
   unprotectedHeaders |-> unprotectedHeaders, algorithm |-> algorithm,
   payload |-> payload]

\* One call of the external signer.  A signer is a record of its markers, its
\* arity and what it does with a context object (onContext) and with raw bytes
\* (onBytes): "sign" the bytes it was meant to sign, "blind" sign whatever it
\* was handed, return an "empty" byte string, or "throw".
CallSigner(signer, arg) ==
  LET mode == IF arg.t = "Context" THEN signer.onContext ELSE signer.onBytes
  IN  IF mode = "throw"
        THEN Throw("SignerError", <<IF arg.t = "Context" THEN "contextual signing failed"
                                    ELSE "basic signing failed">>)
      ELSE IF mode = "sign"
        THEN Ok(JBytes(WSig(IF arg.t = "Context" THEN arg.data.w ELSE arg.w)))
      ELSE IF mode = "empty" THEN Ok(JBytes(WEmpty))
      ELSE Ok(JBytes(WSig(WEmpty)))

\* The signature or error a call of the signer ends with, with the calls made
Called(calls, res) == [calls |-> calls, res |-> res]

\* The fallback of an unmarked signer of another arity: the contextual call,
\* and the basic call if that one threw
TryContextual(signer, sigStructure, context, asContext) ==
  IF asContext.ok THEN Called(<<context>>, asContext)
  ELSE Called(<<context, sigStructure>>, CallSigner(signer, sigStructure))

\* The dispatch testing the basic marker and the arity before the contextual marker
SignerDispatchBasicFirst(signer, sigStructure, context) ==
  IF signer.isBasicSigner \/ signer.length = 1
    THEN Called(<<sigStructure>>, CallSigner(signer, sigStructure))
  ELSE IF signer.isContextualSigner
    THEN Called(<<context>>, CallSigner(signer, context))
  ELSE TryContextual(signer, sigStructure, context, CallSigner(signer, context))

\* Which calls signWithCallback makes, in order, and the signature or error
\* it ends with
SignerDispatch(signer, sigStructure, context) ==
  IF signer.isContextualSigner
    THEN Called(<<context>>, CallSigner(signer, context))
  ELSE IF signer.isBasicSigner \/ signer.length = 1
    THEN Called(<<sigStructure>>, CallSigner(signer, sigStructure))
  ELSE TryContextual(signer, sigStructure, context, CallSigner(signer, context))

\* The IssuerAuth made of the signature once its length was checked
SignedCheckingLength(d, protectedHeadersMap, unprotectedHeadersMap, payload) ==
  Called(d.calls, Bind(d.res, LAMBDA signature :
    IF signature.w = WEmpty THEN Throw("Error", <<"Invalid signature length">>)
    ELSE IssuerAuth_new(protectedHeadersMap, unprotectedHeadersMap, payload, signature)))

\* The IssuerAuth made of the signature the signer returned
Signed(d, protectedHeadersMap, unprotectedHeadersMap, payload) ==
  Called(d.calls, Bind(d.res, LAMBDA signature :
    IssuerAuth_new(protectedHeadersMap, unprotectedHeadersMap, payload, signature)))

\* The Sig_structure built over the protected-header map itself, not its bytes
SignStructureOverMap(protectedHeadersMap, payload) ==
  Signature1(protectedHeadersMap, JBytes(WEmpty), payload)

SignStructure(protectedHeadersMap, payload) ==
  Signature1(cborEncode(protectedHeadersMap), JBytes(WEmpty), payload)

signWithCallback(protectedHeaders, unprotectedHeaders, payload, signer, algorithm) ==
  Signed(SignerDispatch(signer,
           SignStructure(ProtectedHeadersMap(protectedHeaders), payload),
           SigningContext(SignStructure(ProtectedHeadersMap(protectedHeaders), payload),
                          protectedHeaders, unprotectedHeaders, algorithm, payload)),
         ProtectedHeadersMap(protectedHeaders),
         UnprotectedHeadersMap(unprotectedHeaders), payload)

\* IssuerAuth.sign: Sign1.sign with the issuer's private key
IssuerAuth_sign(protectedHeaders, unprotectedHeaders, payload, key) ==
  IssuerAuth_new(ProtectedHeadersMap(protectedHeaders),
                 UnprotectedHeadersMap(unprotectedHeaders), payload,
                 JBytes(WSig(SignStructure(ProtectedHeadersMap(protectedHeaders),
                                           payload).w)))

-----------------------------------------------------------------------------
(* Document: the issuance builder (spec section 4.4) *)

Document_new(docType) ==
  [docType |-> docType, issuerNameSpaces |-> <<>>, digestAlgorithm |-> Undefined,
   validityInfo |-> Undefined, deviceKeyInfo |-> Undefined]

IssuerSignedItem_create(ns, digestID, elementIdentifier, elementValue) ==
  IssuerSignedItem_new(DataItem_fromData(JMap(
    << <<JStr("digestID"), JInt(digestID)>>,
       <<JStr("random"), JBytes(WSalt(ns, digestID))>>,
       <<JStr("elementIdentifier"), elementIdentifier>>,
       <<JStr("elementValue"), elementValue>> >>)))

\* values: the ordered entries of the record of element values
addIssuerNameSpace(b, ns, values) ==
  LET old == IF HasKey(b.issuerNameSpaces, ns) THEN GetKey(b.issuerNameSpaces, ns)
             ELSE <<>>
      new == [i \in 1..Len(values) |->
                IssuerSignedItem_create(ns.s, Len(old) + i - 1, values[i][1], values[i][2])]
  IN  [b EXCEPT !.issuerNameSpaces = SetKey(@, ns, old \o new)]

useDigestAlgorithm(b, alg) == [b EXCEPT !.digestAlgorithm = alg]

\* validFrom defaults to signed, validUntil to signed plus one year
addValidityInfo(b, info) ==
  LET signed == GetKey(info, JStr("signed"))
      validFrom == IF HasKey(info, JStr("validFrom")) THEN GetKey(info, JStr("validFrom"))
                   ELSE signed
      validUntil == IF HasKey(info, JStr("validUntil"))
                      THEN GetKey(info, JStr("validUntil"))
                    ELSE JInt(signed.n + 1)
  IN  [b EXCEPT !.validityInfo = JMap(<< <<JStr("signed"), signed>>,
                                         <<JStr("validFrom"), validFrom>>,
                                         <<JStr("validUntil"), validUntil>> >>)]

\* The COSE_Key of a device public key: kty EC2, crv P-256, x, y
addDeviceKeyInfo(b, deviceKey) ==
  [b EXCEPT !.deviceKeyInfo = JMap(<< <<JStr("deviceKey"),
      JMap(<< <<JInt(1), JInt(2)>>, <<JInt(-1), JInt(1)>>,
              <<JInt(-2), JBytes(WRaw(deviceKey))>>,
              <<JInt(-3), JBytes(WRaw(deviceKey + 1))>> >>)>> >>)]

\* valueDigests: per namespace, digestID -> digest of the item's tag-24 bytes
ValueDigests(b) ==
  LET ns == b.issuerNameSpaces
  IN  JMap([i \in 1..Len(ns) |->
        <<ns[i][1],
          JMap([j \in 1..Len(ns[i][2]) |->
            <<GetKey(DataItem_data(ns[i][2][j].dataItem).val.entries, JStr("digestID")),
              JBytes(WDigest(b.digestAlgorithm.s,
                             EncodeItem(ns[i][2][j].dataItem)))>>])>>])

MobileSecurityObject(b) ==
  JMap(SetAll(<<>>,
    << <<JStr("version"), JStr("1.0")>>,
       <<JStr("digestAlgorithm"), b.digestAlgorithm>>,
       <<JStr("valueDigests"), ValueDigests(b)>> >>
    \o (IF Truthy(b.deviceKeyInfo) THEN << <<JStr("deviceKeyInfo"), b.deviceKeyInfo>> >>
        ELSE <<>>)
    \o << <<JStr("docType"), b.docType>>,
          <<JStr("validityInfo"), b.validityInfo>> >>))

\* The protected and unprotected headers Document.sign hands on
ProtectedHeader(params) == JObj(<< <<JStr("alg"), params.alg>> >>)

UnprotectedHeader(params) ==
  JObj(<< <<JStr("x5chain"), params.issuerCertificate>> >>
       \o (IF Truthy(params.kid) THEN << <<JStr("kid"), params.kid>> >> ELSE <<>>))

MSOPayload(b) == cborEncode(DataItem_fromData(MobileSecurityObject(b)))

\* The IssuerAuth of the document, by the signer or by the private key
SignMSO(b, params) ==
  IF Truthy(params.signer)
    THEN signWithCallback(ProtectedHeader(params), UnprotectedHeader(params),
                          MSOPayload(b), params.signer, params.alg)
  ELSE Called(<<>>, IssuerAuth_sign(ProtectedHeader(params), UnprotectedHeader(params),
                                    MSOPayload(b), params.issuerPrivateKey))

SignedDocument(b, made) ==
  Called(made.calls, Bind(made.res, LAMBDA issuerAuth :
    Ok(IssuerSignedDocument_new(b.docType, IssuerSigned(b.issuerNameSpaces, issuerAuth)))))

\* Document.sign checking the builder before the pair of key and signer
signCheckingBuilderFirst(b, params) ==
  IF ~Truthy(b.digestAlgorithm)
    THEN Called(<<>>, Throw("Error", <<"No digest algorithm set">>))
  ELSE IF ~Truthy(b.validityInfo)
    THEN Called(<<>>, Throw("Error", <<"No validity info set">>))
  ELSE IF Truthy(params.issuerPrivateKey) /\ Truthy(params.signer)
    THEN Called(<<>>, Throw("Error", <<"Cannot provide both issuerPrivateKey and signer">>))
  ELSE IF ~Truthy(params.issuerPrivateKey) /\ ~Truthy(params.signer)
    THEN Called(<<>>, Throw("Error", <<"Either issuerPrivateKey or signer must be provided">>))
  ELSE SignedDocument(b, SignMSO(b, params))

\* Document.sign: the outcome, with the calls made to an external signer
sign(b, params) ==
  IF Truthy(params.issuerPrivateKey) /\ Truthy(params.signer)
    THEN Called(<<>>, Throw("Error", <<"Cannot provide both issuerPrivateKey and signer">>))
  ELSE IF ~Truthy(params.issuerPrivateKey) /\ ~Truthy(params.signer)
    THEN Called(<<>>, Throw("Error", <<"Either issuerPrivateKey or signer must be provided">>))
  ELSE IF ~Truthy(b.digestAlgorithm)
    THEN Called(<<>>, Throw("Error", <<"No digest algorithm set">>))
  ELSE IF ~Truthy(b.validityInfo)
    THEN Called(<<>>, Throw("Error", <<"No validity info set">>))
  ELSE SignedDocument(b, SignMSO(b, params))

-----------------------------------------------------------------------------
(* MDoc (spec section 3): the DeviceResponse envelope *)

MDoc_new(documents, version, status) ==
  [class |-> "MDoc", documents |-> documents, version |-> version, status |-> status]

\* new MDoc(documents): version "1.0", status 0 (OK)
MDoc_of(documents) == MDoc_new(documents, JStr("1.0"), JInt(0))

-----------------------------------------------------------------------------
(* parse: the DeviceResponse parser, in the two forms the repository holds *)

\* The deviceAuth object preferring the MAC to the signature
DeviceAuthFromMacFirst(deviceSignature, deviceMac) ==
  IF Truthy(deviceMac)
    THEN Bind(IssuerAuth_fromRaw(deviceMac), LAMBDA mac0 :
           Ok(JObj(<< <<JStr("deviceMac"), mac0>> >>)))
  ELSE Bind(IssuerAuth_fromRaw(deviceSignature), LAMBDA sign1 :
         Ok(JObj(<< <<JStr("deviceSignature"), sign1>> >>)))

\* The deviceAuth object: the signature if there is one, otherwise the MAC
DeviceAuthFrom(deviceSignature, deviceMac) ==
  IF Truthy(deviceSignature)
    THEN Bind(IssuerAuth_fromRaw(deviceSignature), LAMBDA sign1 :
           Ok(JObj(<< <<JStr("deviceSignature"), sign1>> >>)))
  ELSE Bind(IssuerAuth_fromRaw(deviceMac), LAMBDA mac0 :
         Ok(JObj(<< <<JStr("deviceMac"), mac0>> >>)))

parseDeviceAuthElement(rawDeviceAuth) ==
  Bind(ObjectFromEntries(rawDeviceAuth), LAMBDA o :
    DeviceAuthFrom(GetKey(o.entries, JStr("deviceSignature")),
                   GetKey(o.entries, JStr("deviceMac"))))

DeviceNameSpaceEntry(e) ==
  Bind(EntriesOf(e[2]), LAMBDA attrs : Ok(<<e[1], FromEntries(attrs)>>))

mapDeviceNameSpaces(namespace) ==
  Bind(EntriesOf(namespace), LAMBDA outer :
  Bind(Collect([i \in 1..Len(outer) |-> DeviceNameSpaceEntry(outer[i])]), LAMBDA entries :
    Ok(FromEntries(entries))))

DeviceSigned(nameSpaces, deviceAuth) ==
  [t |-> "DeviceSigned", nameSpaces |-> nameSpaces, deviceAuth |-> deviceAuth]

DeviceSignedDocument_new(docType, issuerSigned, deviceSigned) ==
  [class |-> "DeviceSignedDocument", docType |-> docType,
   issuerSigned |-> issuerSigned, deviceSigned |-> deviceSigned]

\* doc.get(key) in src/mdoc/parser.ts; in the second form
\* x instanceof Map ? x.get(key) : x[key]
Get(form, x, key) ==
  IF form = "parser.ts" \/ x.t = "Map" THEN MapGet(x, key) ELSE PropGet(x, key)

\* doc.has(key) in src/mdoc/parser.ts; in the second form
\* x instanceof Map ? x.has(key) : key in x
Has(form, x, key) ==
  IF form = "parser.ts" \/ x.t = "Map" THEN MapHas(x, key) ELSE KeyInOp(x, key)

\* The data of deviceSigned.nameSpaces: .data in src/mdoc/parser.ts; in the
\* second form x instanceof Map ? x.get('data') : x.data
DataOf(form, x) ==
  IF form = "parser.ts" THEN PropGet(x, JStr("data")) ELSE Get(form, x, JStr("data"))

\* The issuerSigned object of a parsed document: undefined without the key
IssuerSignedOf(form, hasIssuerSigned, issuerSignedData, issuerAuth) ==
  IF ~hasIssuerSigned THEN Ok(Undefined)
  ELSE Bind(Get(form, issuerSignedData, JStr("nameSpaces")), LAMBDA rawNameSpaces :
       Bind(mapIssuerNameSpaces(rawNameSpaces), LAMBDA nameSpaces :
         Ok(IssuerSigned(nameSpaces, issuerAuth))))

\* The deviceSigned object of a parsed document
DeviceSignedOf(form, deviceSignedData) ==
  Bind(Get(form, deviceSignedData, JStr("nameSpaces")), LAMBDA nameSpacesData :
  Bind(DataOf(form, nameSpacesData), LAMBDA nameSpacesValue :
  Bind(mapDeviceNameSpaces(nameSpacesValue), LAMBDA nameSpaces :
  Bind(Get(form, deviceSignedData, JStr("deviceAuth")), LAMBDA rawDeviceAuth :
  Bind(parseDeviceAuthElement(rawDeviceAuth), LAMBDA deviceAuth :
    Ok(DeviceSigned(nameSpaces, deviceAuth)))))))

\* The document made with its deviceSigned parsed and then left out
WithDeviceSignedDropped(form, document, docType, issuerSigned) ==
  Bind(Has(form, document, JStr("deviceSigned")), LAMBDA hasDeviceSigned :
    IF ~hasDeviceSigned THEN Ok(IssuerSignedDocument_new(docType, issuerSigned))
    ELSE Bind(Get(form, document, JStr("deviceSigned")), LAMBDA deviceSignedData :
         Bind(DeviceSignedOf(form, deviceSignedData), LAMBDA deviceSigned :
           Ok(IssuerSignedDocument_new(docType, issuerSigned)))))

\* The document made once issuerSigned is known
WithDeviceSigned(form, document, docType, issuerSigned) ==
  Bind(Has(form, document, JStr("deviceSigned")), LAMBDA hasDeviceSigned :
    IF ~hasDeviceSigned THEN Ok(IssuerSignedDocument_new(docType, issuerSigned))
    ELSE Bind(Get(form, document, JStr("deviceSigned")), LAMBDA deviceSignedData :
         Bind(DeviceSignedOf(form, deviceSignedData), LAMBDA deviceSigned :
           Ok(DeviceSignedDocument_new(docType, issuerSigned, deviceSigned)))))

\* What the callback of documents.map makes of one document
DocumentFrom(form, document) ==
  Bind(Get(form, document, JStr("issuerSigned")), LAMBDA issuerSignedData :
  Bind(Get(form, issuerSignedData, JStr("issuerAuth")), LAMBDA rawIssuerAuth :
  Bind(Get(form, document, JStr("docType")), LAMBDA docType :
  Bind(parseIssuerAuthElement(rawIssuerAuth, docType), LAMBDA issuerAuth :
  Bind(Has(form, document, JStr("issuerSigned")), LAMBDA hasIssuerSigned :
  Bind(IssuerSignedOf(form, hasIssuerSigned, issuerSignedData, issuerAuth),
       LAMBDA issuerSigned :
    WithDeviceSigned(form, document, docType, issuerSigned)))))))

\* documents.map visiting the documents last to first
DocumentsFromLastToFirst(form, documents) ==
  IF documents.t # "Array"
    THEN Throw("TypeError", <<"documents.map is not a function">>)
  ELSE Collect([i \in 1..Len(documents.items) |->
         DocumentFrom(form, documents.items[Len(documents.items) + 1 - i])])

\* documents.map(callback): the first document that throws ends the parse
DocumentsFrom(form, documents) ==
  IF documents.t # "Array"
    THEN Throw("TypeError", <<"documents.map is not a function">>)
  ELSE Collect([i \in 1..Len(documents.items) |-> DocumentFrom(form, documents.items[i])])

\* parse without the catch block: the decoder's error leaves as it is
RethrowDecoderError(r) == r

\* The catch block around cborDecode in parse
UnableToDecode(r) ==
  IF r.ok THEN r
  ELSE MDLParseError(<<"Unable to decode device response: ">> \o r.err.message)

\* parse rejecting a response whose status is not 0
parseRejectingStatus(encoded) ==
  Bind(UnableToDecode(cborDecode(encoded)), LAMBDA deviceResponse :
  Bind(ObjectFromEntries(deviceResponse), LAMBDA response :
  Bind(DocumentsFrom("parser.ts", GetKey(response.entries, JStr("documents"))),
       LAMBDA parsedDocuments :
    IF GetKey(response.entries, JStr("status")) # JInt(0)
      THEN MDLParseError(<<"Invalid status">>)
    ELSE Ok(MDoc_new(parsedDocuments, GetKey(response.entries, JStr("version")),
                     GetKey(response.entries, JStr("status")))))))

\* src/mdoc/parser.ts: every level is read as a Map
parse(encoded) ==
  Bind(UnableToDecode(cborDecode(encoded)), LAMBDA deviceResponse :
  Bind(ObjectFromEntries(deviceResponse), LAMBDA response :
  Bind(DocumentsFrom("parser.ts", GetKey(response.entries, JStr("documents"))),
       LAMBDA parsedDocuments :
    Ok(MDoc_new(parsedDocuments, GetKey(response.entries, JStr("version")),
                GetKey(response.entries, JStr("status")))))))

\* const { version, documents, status } = responseData, and the rest of parse
ResponseFrom(responseData) ==
  Bind(PropGet(responseData, JStr("version")), LAMBDA version :
  Bind(PropGet(responseData, JStr("documents")), LAMBDA documents :
  Bind(PropGet(responseData, JStr("status")), LAMBDA status :
  Bind(DocumentsFrom("part_001", documents), LAMBDA parsedDocuments :
    Ok(MDoc_new(parsedDocuments, version, status))))))

\* the second form (src/unnamed/part_001): every level is a Map or an object
parseMapOrObject(encoded) ==
  Bind(UnableToDecode(cborDecode(encoded)), LAMBDA deviceResponse :
  Bind(IF deviceResponse.t = "Map" THEN ObjectFromEntries(deviceResponse)
       ELSE Ok(deviceResponse), LAMBDA responseData :
    ResponseFrom(responseData)))

-----------------------------------------------------------------------------
(* DeviceSignedDocument.prepare and MDoc.encode *)

\* the deviceAuth entries with each COSE object as its content for encoding
DeviceAuthForEncoding(deviceAuth) ==
  JObj([i \in 1..Len(deviceAuth.entries) |->
    <<deviceAuth.entries[i][1], getContentForEncoding(deviceAuth.entries[i][2])>>])

DeviceSignedDocument_prepare(D) ==
  JMap(SetKey(prepare(D).entries, JStr("deviceSigned"),
    JObj(<< <<JStr("nameSpaces"), DataItem_fromData(D.deviceSigned.nameSpaces)>>,
            <<JStr("deviceAuth"), DeviceAuthForEncoding(D.deviceSigned.deviceAuth)>> >>)))

PrepareDocument(D) ==
  IF D.class = "DeviceSignedDocument" THEN DeviceSignedDocument_prepare(D)
  ELSE prepare(D)

MDoc_encode(m) ==
  cborEncode(JObj(<< <<JStr("version"), m.version>>,
                     <<JStr("documents"),
                       JArr([i \in 1..Len(m.documents) |-> PrepareDocument(m.documents[i])])>>,
                     <<JStr("status"), m.status>> >>))

-----------------------------------------------------------------------------
(* Bounds and inputs *)

\* the most items a builder holds, over its namespaces
MaxItems == 2

DocTypes == {JStr("org.iso.18013.5.1.mDL"), JStr("org.example.other")}

NameSpaceNames == {JStr("org.iso.18013.5.1"), JStr("org.example.ns")}

ElementRecords ==
  { << <<JStr("given_name"), JStr("John")>> >>,
    << <<JStr("given_name"), JStr("John")>>, <<JStr("family_name"), JStr("Doe")>> >> }

ValidityInputs == { << <<JStr("signed"), JInt(2024)>> >> }

Signer(isContextualSigner, isBasicSigner, length, onContext, onBytes) ==
  [t |-> "Function", isContextualSigner |-> isContextualSigner,
   isBasicSigner |-> isBasicSigner, length |-> length,
   onContext |-> onContext, onBytes |-> onBytes]

Signers ==
  { Signer(FALSE, FALSE, 1, "throw", "sign"),
    Signer(TRUE, FALSE, 1, "sign", "throw"),
    Signer(FALSE, TRUE, 0, "throw", "sign"),
    Signer(FALSE, FALSE, 0, "blind", "blind"),
    Signer(FALSE, FALSE, 2, "throw", "sign"),
    Signer(FALSE, FALSE, 1, "throw", "throw") }

Params(issuerPrivateKey, signer, kid) ==
  [issuerPrivateKey |-> issuerPrivateKey, signer |-> signer,
   issuerCertificate |-> JBytes(WRaw(64)), alg |-> JStr("ES256"), kid |-> kid]

\* The key alone, a signer alone, both and neither
SignParams ==
  {Params(JStr("issuer-private-key"), Undefined, kid) : kid \in {Undefined, JStr("test-kid")}}
  \cup {Params(Undefined, signer, JStr("test-kid")) : signer \in Signers}
  \cup {Params(Undefined, Signer(FALSE, FALSE, 1, "throw", "sign"), Undefined),
        Params(JStr("issuer-private-key"), Signer(FALSE, FALSE, 1, "throw", "sign"),
               Undefined),
        Params(Undefined, Undefined, Undefined)}

\* The read operations of IssuerSignedDocument
ReadOperations ==
  {"prepare", "prepareIssuerSigned", "encodeIssuerSigned", "getIssuerNameSpace",
   "issuerSignedNameSpaces"}

\* The algorithms a caller may name
SupportedAlgs == {JStr("ES256"), JStr("ES384"), JStr("ES512"), JStr("EdDSA")}

\* The signers handed to signWithCallback itself: those of Signers, signers
\* flagged contextual that are also flagged basic or have another arity, and
\* one returning an empty byte string
CallbackSigners ==
  Signers \cup
  { Signer(TRUE, TRUE, 1, "sign", "throw"),
    Signer(TRUE, FALSE, 0, "throw", "sign"),
    Signer(FALSE, TRUE, 2, "sign", "throw"),
    Signer(FALSE, FALSE, 0, "throw", "throw"),
    Signer(FALSE, TRUE, 1, "empty", "empty") }

\* The unprotected headers of a caller: none, the certificate alone, the
\* certificate with a kid, and a Map that is already keyed by label
UnprotectedHeadersInputs ==
  { Undefined,
    JObj(<< <<JStr("x5chain"), JBytes(WRaw(64))>> >>),
    JObj(<< <<JStr("x5chain"), JBytes(WRaw(64))>>, <<JStr("kid"), JStr("test-kid")>> >>),
    JMap(<< <<JInt(33), JBytes(WRaw(64))>> >>) }

\* The payload bytes of an MSO with the given docType and version (Undefined:
\* the key is absent)
MsoBytes(docType, version) ==
  cborEncode(DataItem_fromData(JMap(
    (IF version = Undefined THEN <<>> ELSE << <<JStr("version"), version>> >>)
    \o << <<JStr("digestAlgorithm"), JStr("SHA-256")>>,
          <<JStr("valueDigests"), JMap(<<>>)>> >>
    \o (IF docType = Undefined THEN <<>> ELSE << <<JStr("docType"), docType>> >>)
    \o << <<JStr("validityInfo"),
            JMap(<< <<JStr("signed"), JInt(2024)>> >>)>> >>)))

\* The payloads of an IssuerAuth whose decodedPayload is read: an MSO under
\* tag 24, an MSO map that is not wrapped, and bytes that are no MSO
PayloadInputs ==
  { MsoBytes(JStr("org.iso.18013.5.1.mDL"), JStr("1.0")),
    MsoBytes(JStr("org.example.other"), Undefined),
    cborEncode(JMap(<< <<JStr("version"), JStr("1.0")>>,
                       <<JStr("docType"), JStr("org.iso.18013.5.1.mDL")>> >>)),
    cborEncode(JStr("invalid")),
    JBytes(WRaw(105)) }

\* The number of reads of decodedPayload followed on one IssuerAuth
MaxReads == 3

VersionInputs ==
  {Undefined, JStr(""), JStr("1.0"), JStr("1.0.0"), JStr("1"), JStr("1.1"), JStr("abc")}

RawIssuerAuth(docType, version) ==
  JArr(<<cborEncode(JMap(<< <<JInt(1), JInt(-7)>> >>)), JMap(<<>>),
         MsoBytes(docType, version), JBytes(WRaw(66))>>)

RawIssuerAuthInputs ==
  {JArr(<<>>)} \cup
  {RawIssuerAuth(d, v) : d \in DocTypes \cup {Undefined}, v \in VersionInputs}

RawNameSpacesInputs ==
  { JMap(<<>>), JStr("nameSpaces"),
    JMap(<< <<JStr("org.iso.18013.5.1"),
              JArr(<<IssuerSignedItem_create("org.iso.18013.5.1", 0, JStr("given_name"),
                                             JStr("John")).dataItem>>)>> >>),
    JMap(<< <<JStr("org.iso.18013.5.1"),
              JArr(<<IssuerSignedItem_create("org.iso.18013.5.1", 0, JStr("given_name"),
                                             JStr("John")).dataItem,
                     IssuerSignedItem_create("org.iso.18013.5.1", 1, JStr("given_name"),
                                             JStr("Jane")).dataItem>>)>> >>) }

\* The bytes of a top-level map, or of the record-structured item a decoder
\* turns into a plain object
TopLevel(shape, entries) ==
  JBytes([EncodeItem(JMap(entries)) EXCEPT !.c = shape])

IssuerSignedInputs ==
  {TopLevel(shape, << <<JStr("nameSpaces"), ns>>, <<JStr("issuerAuth"), ia>> >>) :
     shape \in {"map", "record"}, ns \in RawNameSpacesInputs, ia \in RawIssuerAuthInputs}
  \cup
  {TopLevel(shape, << <<JStr("issuerAuth"), ia>> >>) :
     shape \in {"map", "record"},
     ia \in {JArr(<<>>), RawIssuerAuth(JStr("org.iso.18013.5.1.mDL"), JStr("1.0"))}}
  \cup
  {TopLevel(shape, << <<JStr("nameSpaces"), ns>> >>) :
     shape \in {"map", "record"}, ns \in RawNameSpacesInputs}
  \cup
  {TopLevel(shape, <<>>) : shape \in {"map", "record"}}

\* Bytes that are not well-formed CBOR, and well-formed items that are no map
OtherInputs ==
  { JBytes(WRaw(105)), JBytes(WEmpty), cborEncode(JStr("invalid")), cborEncode(Null),
    cborEncode(JArr(<<>>)), cborEncode(JInt(0)) }

\* the most documents a received DeviceResponse holds
MaxDocuments == 2

\* The issuerSigned of a received document: complete, or lacking a key
RawIssuerSignedInputs(docType) ==
  { JMap(<< <<JStr("nameSpaces"), ns>>,
            <<JStr("issuerAuth"), RawIssuerAuth(docType, JStr("1.0"))>> >>) :
      ns \in {n \in RawNameSpacesInputs : n.t = "Map" /\ n.entries # <<>>} }
  \cup { JMap(<< <<JStr("issuerAuth"), RawIssuerAuth(docType, JStr("1.0"))>> >>),
         JMap(<< <<JStr("nameSpaces"), JMap(<<>>)>> >>) }

\* The deviceAuth of a received document: a signature, a MAC, both, neither
RawDeviceAuthInputs ==
  LET deviceSignature == JArr(<<cborEncode(JMap(<< <<JInt(1), JInt(-7)>> >>)), JMap(<<>>),
                                Null, JBytes(WRaw(64))>>)
      deviceMac == JArr(<<cborEncode(JMap(<< <<JInt(1), JInt(5)>> >>)), JMap(<<>>),
                          Null, JBytes(WRaw(32))>>)
  IN  { JMap(<< <<JStr("deviceSignature"), deviceSignature>> >>),
        JMap(<< <<JStr("deviceMac"), deviceMac>> >>),
        JMap(<< <<JStr("deviceSignature"), deviceSignature>>,
                <<JStr("deviceMac"), deviceMac>> >>),
        JMap(<<>>) }

\* The documents of a received DeviceResponse: of either docType, one whose
\* MSO names the other docType, two whose MSO has no version or another
\* version, those with a deviceSigned, and one without issuerSigned
RawDocumentInputs ==
  {JMap(<< <<JStr("docType"), JStr("org.iso.18013.5.1.mDL")>>,
           <<JStr("issuerSigned"), issuerSigned>> >>) :
     issuerSigned \in RawIssuerSignedInputs(JStr("org.iso.18013.5.1.mDL"))}
  \cup
  {JMap(<< <<JStr("docType"), docType>>,
           <<JStr("issuerSigned"),
             JMap(<< <<JStr("nameSpaces"), JMap(<<>>)>>,
                     <<JStr("issuerAuth"),
                       RawIssuerAuth(JStr("org.example.other"), JStr("1.0"))>> >>)>> >>) :
     docType \in DocTypes}
  \cup
  {JMap(<< <<JStr("docType"), JStr("org.iso.18013.5.1.mDL")>>,
           <<JStr("issuerSigned"),
             JMap(<< <<JStr("nameSpaces"), JMap(<<>>)>>,
                     <<JStr("issuerAuth"),
                       RawIssuerAuth(JStr("org.iso.18013.5.1.mDL"), version)>> >>)>> >>) :
     version \in {Undefined, JStr("1.0.0")}}
  \cup
  {JMap(<< <<JStr("docType"), JStr("org.iso.18013.5.1.mDL")>>,
           <<JStr("issuerSigned"),
             JMap(<< <<JStr("nameSpaces"), JMap(<<>>)>>,
                     <<JStr("issuerAuth"),
                       RawIssuerAuth(JStr("org.iso.18013.5.1.mDL"), JStr("1.0"))>> >>)>>,
           <<JStr("deviceSigned"),
             JMap(<< <<JStr("nameSpaces"), DataItem_fromData(JMap(<<>>))>>,
                     <<JStr("deviceAuth"), deviceAuth>> >>)>> >>) :
     deviceAuth \in RawDeviceAuthInputs}
  \cup {JMap(<< <<JStr("docType"), JStr("org.iso.18013.5.1.mDL")>> >>)}

\* Received DeviceResponses: with up to MaxDocuments documents, and without
\* the documents array; as a record-structured item with at most one document;
\* with another version or status, and with neither
DeviceResponseInputs ==
  {TopLevel("map", << <<JStr("version"), JStr("1.0")>>,
                      <<JStr("documents"), JArr(documents)>>,
                      <<JStr("status"), JInt(0)>> >>) :
     documents \in UNION {[1..n -> RawDocumentInputs] : n \in 0..MaxDocuments}}
  \cup
  {TopLevel("record", << <<JStr("version"), JStr("1.0")>>,
                         <<JStr("documents"), JArr(documents)>>,
                         <<JStr("status"), JInt(0)>> >>) :
     documents \in UNION {[1..n -> RawDocumentInputs] : n \in 0..1}}
  \cup
  {TopLevel(shape, << <<JStr("version"), JStr("1.0")>>, <<JStr("status"), JInt(0)>> >>) :
     shape \in {"map", "record"}}
  \cup
  {TopLevel(shape, << <<JStr("version"), version>>,
                      <<JStr("documents"), JArr(<<document>>)>>,
                      <<JStr("status"), status>> >>) :
     shape \in {"map", "record"}, version \in {JStr("2.0"), JInt(1)},
     status \in {JInt(0), JInt(10)},
     document \in {d \in RawDocumentInputs :
                     \/ Len(d.entries) = 1
                     \/ /\ Len(d.entries) = 2
                        /\ Len(GetKey(d.entries, JStr("issuerSigned")).entries) = 2
                        /\ GetKey(d.entries, JStr("docType")) = JStr("org.example.other")}}
  \cup
  {TopLevel(shape, << <<JStr("documents"), JArr(<<>>)>> >>) : shape \in {"map", "record"}}

NetworkInputs == IssuerSignedInputs \cup OtherInputs \cup DeviceResponseInputs

-----------------------------------------------------------------------------
(* The state machine *)

RECURSIVE ItemCount(_)
ItemCount(nameSpaces) ==
  IF nameSpaces = <<>> THEN 0
  ELSE Len(nameSpaces[1][2]) + ItemCount(Tail(nameSpaces))

Init ==
  /\ builder = None
  /\ doc = None
  /\ wire = None
  /\ outcome = None

NewDocument(docType) ==
  /\ builder = None
  /\ wire = None
  /\ builder' = Document_new(docType)
  /\ outcome' = None
  /\ UNCHANGED <<doc, wire>>

AddIssuerNameSpace(ns, values) ==
  /\ builder # None
  /\ doc = None
  /\ ItemCount(builder.issuerNameSpaces) + Len(values) <= MaxItems
  /\ builder' = addIssuerNameSpace(builder, ns, values)
  /\ outcome' = None
  /\ UNCHANGED <<doc, wire>>

UseDigestAlgorithm(alg) ==
  /\ builder # None
  /\ doc = None
  /\ builder' = useDigestAlgorithm(builder, alg)
  /\ outcome' = None
  /\ UNCHANGED <<doc, wire>>

AddValidityInfo(info) ==
  /\ builder # None
  /\ doc = None
  /\ builder' = addValidityInfo(builder, info)
  /\ outcome' = None
  /\ UNCHANGED <<doc, wire>>

AddDeviceKeyInfo(deviceKey) ==
  /\ builder # None
  /\ doc = None
  /\ builder' = addDeviceKeyInfo(builder, deviceKey)
  /\ outcome' = None
  /\ UNCHANGED <<doc, wire>>

Sign(params) ==
  /\ builder # None
  /\ doc = None
  /\ LET r == sign(builder, params)
     IN  /\ outcome' = [op |-> "sign", params |-> params, res |-> r.res, calls |-> r.calls]
         /\ doc' = IF r.res.ok THEN r.res.val ELSE doc
  /\ UNCHANGED <<builder, wire>>

\* One of the read operations of the signed document, called after its bytes
\* were first encoded; held is the Map the caller keeps of prepareIssuerSigned
ReadDocument(op, ns) ==
  /\ doc # None
  /\ wire # None
  /\ wire.from = "encodeIssuerSigned"
  /\ outcome' =
       [op |-> op,
        res |-> CASE op = "prepare" -> Ok(prepare(doc))
                  [] op = "prepareIssuerSigned" -> Ok(prepareIssuerSigned(doc))
                  [] op = "encodeIssuerSigned" -> Ok(encodeIssuerSigned(doc))
                  [] op = "getIssuerNameSpace" -> getIssuerNameSpace(doc, ns)
                  [] op = "issuerSignedNameSpaces" -> Ok(JArr(issuerSignedNameSpaces(doc))),
        held |-> IF op = "prepareIssuerSigned" THEN NameSpacesObject(doc) ELSE None]
  /\ UNCHANGED <<builder, doc, wire>>

\* The caller writes to the Map an earlier prepareIssuerSigned returned:
\* delete(ns) of a namespace it lists, set(ns, []) of one it does not.  The
\* write reaches the document only if the Map is an object of the document.
MutatePrepared(ns) ==
  /\ outcome # None
  /\ outcome.op = "prepareIssuerSigned"
  /\ LET entries == outcome.held.value.entries
         written == IF HasKey(entries, ns)
                      THEN SelectSeq(entries, LAMBDA e : e[1] # ns)
                    ELSE Append(entries, <<ns, JArr(<<>>)>>)
     IN  /\ outcome' = [outcome EXCEPT !.held.value = JMap(written)]
         /\ doc' = IF outcome.held.ref = "this.issuerSigned.nameSpaces"
                     THEN [doc EXCEPT !.issuerSigned.nameSpaces =
                             IF HasKey(@, ns) THEN SelectSeq(@, LAMBDA e : e[1] # ns)
                             ELSE Append(@, <<ns, <<>> >>)]
                   ELSE doc
  /\ UNCHANGED <<builder, wire>>

\* IssuerAuth.signWithCallback called by an issuer of its own, with the
\* protected headers {alg} of the algorithm it names
SignWithCallback(unprotectedHeaders, payload, signer, algorithm) ==
  /\ builder = None
  /\ wire = None
  /\ LET protectedHeaders == JObj(<< <<JStr("alg"), algorithm>> >>)
         r == signWithCallback(protectedHeaders, unprotectedHeaders, payload, signer,
                               algorithm)
     IN  outcome' = [op |-> "signWithCallback", protectedHeaders |-> protectedHeaders,
                     unprotectedHeaders |-> unprotectedHeaders, payload |-> payload,
                     signer |-> signer, algorithm |-> algorithm,
                     calls |-> r.calls, res |-> r.res]
  /\ UNCHANGED <<builder, doc, wire>>

\* new IssuerAuth(protectedHeader, unprotectedHeader, payload, signature) by a
\* caller of its own: #decodedPayload is not set
NewIssuerAuth(payload) ==
  /\ builder = None
  /\ wire = None
  /\ outcome' =
       [op |-> "decodedPayload", payload |-> payload,
        issuerAuth |->
          [sign1 |-> IssuerAuth_new(JMap(<< <<JInt(1), JInt(-7)>> >>), JMap(<<>>), payload,
                                    JBytes(WRaw(64))).val,
           decodedPayload |-> Undefined],
        reads |-> 0, decodes |-> 0, first |-> None, res |-> None]
  /\ UNCHANGED <<builder, doc, wire>>

\* One read of issuerAuth.decodedPayload; first is what the first read gave
ReadDecodedPayload ==
  /\ outcome # None
  /\ outcome.op = "decodedPayload"
  /\ outcome.reads < MaxReads
  /\ LET r == get_decodedPayload(outcome.issuerAuth, outcome.decodes)
     IN  outcome' = [outcome EXCEPT !.issuerAuth = r.issuerAuth,
                                    !.reads = @ + 1,
                                    !.decodes = @ + r.decoded,
                                    !.first = IF outcome.reads = 0 THEN r.res ELSE @,
                                    !.res = r.res]
  /\ UNCHANGED <<builder, doc, wire>>

EncodeIssuerSigned ==
  /\ doc # None
  /\ wire = None
  /\ wire' = [bytes |-> encodeIssuerSigned(doc), from |-> "encodeIssuerSigned", of |-> doc]
  /\ outcome' = None
  /\ UNCHANGED <<builder, doc>>

Receive(bytes) ==
  /\ builder = None
  /\ wire = None
  /\ wire' = [bytes |-> bytes, from |-> "network", of |-> None]
  /\ outcome' = None
  /\ UNCHANGED <<builder, doc>>

ParseIssuerSigned(docType) ==
  /\ wire # None
  /\ outcome' = [op |-> "parseIssuerSigned", form |-> "parser.ts", arg |-> docType,
                 res |-> parseIssuerSigned(wire.bytes, docType)]
  /\ UNCHANGED <<builder, doc, wire>>

ParseIssuerSignedMapOrObject(docType) ==
  /\ wire # None
  /\ outcome' = [op |-> "parseIssuerSigned", form |-> "part_001", arg |-> docType,
                 res |-> parseIssuerSignedMapOrObject(wire.bytes, docType)]
  /\ UNCHANGED <<builder, doc, wire>>

\* new MDoc([P]).encode() for the document P that parseIssuerSigned returned
MDocEncode ==
  /\ outcome # None
  /\ outcome.op = "parseIssuerSigned"
  /\ outcome.res.ok
  /\ wire.from # "MDoc.encode"
  /\ wire' = [bytes |-> MDoc_encode(MDoc_of(<<outcome.res.val>>)), from |-> "MDoc.encode",
              of |-> outcome.res.val]
  /\ outcome' = None
  /\ UNCHANGED <<builder, doc>>

Parse ==
  /\ wire # None
  /\ outcome' = [op |-> "parse", form |-> "parser.ts", res |-> parse(wire.bytes)]
  /\ UNCHANGED <<builder, doc, wire>>

ParseMapOrObject ==
  /\ wire # None
  /\ outcome' = [op |-> "parse", form |-> "part_001", res |-> parseMapOrObject(wire.bytes)]
  /\ UNCHANGED <<builder, doc, wire>>

Next ==
  \/ \E docType \in DocTypes : NewDocument(docType)
  \/ \E ns \in NameSpaceNames, values \in ElementRecords : AddIssuerNameSpace(ns, values)
  \/ UseDigestAlgorithm(JStr("SHA-256"))
  \/ \E info \in ValidityInputs : AddValidityInfo(info)
  \/ AddDeviceKeyInfo(7)
  \/ \E params \in SignParams : Sign(params)
  \/ \E unprotectedHeaders \in UnprotectedHeadersInputs, docType \in DocTypes,
        signer \in CallbackSigners, algorithm \in SupportedAlgs :
       SignWithCallback(unprotectedHeaders, MsoBytes(docType, JStr("1.0")), signer,
                        algorithm)
  \/ \E op \in ReadOperations, ns \in NameSpaceNames : ReadDocument(op, ns)
  \/ \E ns \in NameSpaceNames : MutatePrepared(ns)
  \/ \E payload \in PayloadInputs : NewIssuerAuth(payload)
  \/ ReadDecodedPayload
  \/ EncodeIssuerSigned
  \/ \E bytes \in NetworkInputs : Receive(bytes)
  \/ \E docType \in DocTypes : ParseIssuerSigned(docType)
  \/ \E docType \in DocTypes : ParseIssuerSignedMapOrObject(docType)
  \/ MDocEncode
  \/ Parse
  \/ ParseMapOrObject

Spec == Init /\ [][Next]_vars

-----------------------------------------------------------------------------
(* Properties *)

KeySet(entries) == {entries[i][1] : i \in 1..Len(entries)}

Encoded == wire # None /\ wire.from = "encodeIssuerSigned"

ParsedIssuerSigned == outcome # None /\ outcome.op = "parseIssuerSigned"

Parsed == outcome # None /\ outcome.op = "parse"

\* A top-level value holding exactly the keys nameSpaces and issuerAuth
HasExactlyIssuerSignedKeys(decoded) ==
  /\ decoded.t = "Map"
  /\ Len(decoded.entries) = 2
  /\ KeySet(decoded.entries) = {JStr("nameSpaces"), JStr("issuerAuth")}

\* C1: the bytes of encodeIssuerSigned decode to a map whose keys are exactly
\* nameSpaces and issuerAuth: no docType, version, documents or status
C1_EncodedKeysAreNameSpacesAndIssuerAuth ==
  Encoded =>
    /\ cborDecode(wire.bytes).ok
    /\ HasExactlyIssuerSignedKeys(cborDecode(wire.bytes).val)

\* An issued document with items has been encoded
C1_Witness ==
  /\ Encoded
  /\ ItemCount(doc.issuerSigned.nameSpaces) >= 1
  /\ wire.of = doc

\* Same docType, same MSO payload, same signature bytes, and the same
\* namespaces each with the same items in the same order
SemanticallyEqual(P, D) ==
  /\ P.docType = D.docType
  /\ P.issuerSigned.issuerAuth.payload = D.issuerSigned.issuerAuth.payload
  /\ decodePayload(P.issuerSigned.issuerAuth) = decodePayload(D.issuerSigned.issuerAuth)
  /\ P.issuerSigned.issuerAuth.signature = D.issuerSigned.issuerAuth.signature
  /\ Len(P.issuerSigned.nameSpaces) = Len(D.issuerSigned.nameSpaces)
  /\ KeySet(P.issuerSigned.nameSpaces) = KeySet(D.issuerSigned.nameSpaces)
  /\ \A ns \in KeySet(D.issuerSigned.nameSpaces) :
       GetKey(P.issuerSigned.nameSpaces, ns) = GetKey(D.issuerSigned.nameSpaces, ns)

RoundTrip == ParsedIssuerSigned /\ Encoded /\ outcome.arg = wire.of.docType

\* C2: parseIssuerSigned of the bytes of D.encodeIssuerSigned(), with the
\* docType of D, succeeds and returns a document semantically equal to D
C2_RoundTripYieldsEqualDocument ==
  RoundTrip => outcome.res.ok /\ SemanticallyEqual(outcome.res.val, wire.of)

\* A document of two namespaces has made the round trip
C2_Witness ==
  /\ RoundTrip
  /\ outcome.form = "parser.ts"
  /\ outcome.res.ok
  /\ Len(wire.of.issuerSigned.nameSpaces) = 2

\* The top level decodes to a map that lacks one of the two keys
LacksKey(decoded) ==
  /\ decoded.t = "Map"
  /\ \/ ~HasKey(decoded.entries, JStr("nameSpaces"))
     \/ ~HasKey(decoded.entries, JStr("issuerAuth"))

\* C3: when the decoded top-level map lacks nameSpaces or issuerAuth,
\* parseIssuerSigned fails with 'Invalid IssuerSigned structure: missing
\* nameSpaces or issuerAuth', whatever the key that is present holds
C3_MissingKeyFailsBeforeIssuerAuth ==
  (ParsedIssuerSigned /\ cborDecode(wire.bytes).ok /\ LacksKey(cborDecode(wire.bytes).val))
    => outcome.res = MDLParseError(MissingKeys)

\* A map holding only issuerAuth, an empty array, has been parsed
C3_Witness ==
  /\ ParsedIssuerSigned
  /\ outcome.form = "parser.ts"
  /\ wire.bytes = cborEncode(JMap(<< <<JStr("issuerAuth"), JArr(<<>>)>> >>))
  /\ outcome.res = MDLParseError(MissingKeys)

\* The MSO a parse of the top-level value reads, if it gets that far
MSOIn(decoded) ==
  IF decoded.t \notin {"Map", "Object"}
     \/ ~HasKey(decoded.entries, JStr("nameSpaces"))
     \/ ~HasKey(decoded.entries, JStr("issuerAuth"))
    THEN Throw("None", <<>>)
  ELSE Bind(IssuerAuth_fromRaw(GetKey(decoded.entries, JStr("issuerAuth"))), decodePayload)

WireMSO == Bind(cborDecode(wire.bytes), MSOIn)

MSOField(key) == GetKey(WireMSO.val.entries, JStr(key))

FailsWithParseError == ~outcome.res.ok /\ outcome.res.err.type = "MDLParseError"

\* C4: for every input whose MSO docType differs from the docType argument,
\* parseIssuerSigned fails with an MDLParseError and returns no document
C4_DocTypeMismatchFails ==
  (ParsedIssuerSigned /\ WireMSO.ok /\ MSOField("docType") # outcome.arg)
    => FailsWithParseError

\* A map whose MSO names another docType, with version "1.0", was refused
C4_Witness ==
  /\ ParsedIssuerSigned
  /\ WireMSO.ok
  /\ cborDecode(wire.bytes).val.t = "Map"
  /\ MSOField("docType") \in DocTypes \ {outcome.arg}
  /\ MSOField("version") = JStr("1.0")
  /\ outcome.res = MDLParseError(<<"The issuerAuth docType must be ", outcome.arg>>)

VersionMessage == <<"The issuerAuth version must be '1.0'">>

\* C5: parseIssuerSigned fails with an MDLParseError whenever the MSO version
\* is absent or any string other than exactly "1.0", and passes this check
\* only for "1.0"
C5_VersionMustBeExactly10 ==
  (ParsedIssuerSigned /\ WireMSO.ok /\ cborDecode(wire.bytes).val.t = "Map"
     /\ MSOField("docType") = outcome.arg)
    => IF MSOField("version") = JStr("1.0")
         THEN outcome.res.ok \/ outcome.res.err.message # VersionMessage
       ELSE FailsWithParseError

\* C6: for every byte string that is not well-formed CBOR, parseIssuerSigned
\* throws an MDLParseError, not another kind of error
C6_MalformedCborIsParseError ==
  (ParsedIssuerSigned /\ ~cborDecode(wire.bytes).ok) => FailsWithParseError

\* C7: for every byte string the decoder rejects, parse throws an
\* MDLParseError whose message is 'Unable to decode device response: '
\* followed by the decoder's message, and returns no MDoc
C7_ParseWrapsDecoderError ==
  (Parsed /\ ~cborDecode(wire.bytes).ok)
    => outcome.res = MDLParseError(<<"Unable to decode device response: ">>
                                   \o cborDecode(wire.bytes).err.message)

\* parse has been handed the bytes of the text 'invalid'
C7_Witness ==
  /\ Parsed
  /\ outcome.form = "parser.ts"
  /\ wire.bytes = JBytes(WRaw(105))
  /\ ~outcome.res.ok

\* The bytes of the same top-level value written as a CBOR map
AsMap(bytes) == JBytes([bytes.w EXCEPT !.c = "map"])

\* What the form of parseIssuerSigned that produced the outcome returns
ParseIssuerSignedBy(form, bytes, docType) ==
  IF form = "parser.ts" THEN parseIssuerSigned(bytes, docType)
  ELSE parseIssuerSignedMapOrObject(bytes, docType)

\* C8: a top-level value the decoder emits as a record, holding nameSpaces
\* and issuerAuth, is processed by parseIssuerSigned exactly like the
\* equivalent map
C8_RecordIsProcessedLikeMap ==
  (ParsedIssuerSigned /\ wire.bytes.w.c = "record"
     /\ ~LacksKey(cborDecode(AsMap(wire.bytes)).val))
    => outcome.res = ParseIssuerSignedBy(outcome.form, AsMap(wire.bytes), outcome.arg)

\* The decoded DeviceResponse of the one document P
IsDeviceResponseOf(decoded, P) ==
  /\ decoded.t = "Map"
  /\ GetKey(decoded.entries, JStr("version")) = JStr("1.0")
  /\ HasKey(decoded.entries, JStr("status"))
  /\ GetKey(decoded.entries, JStr("documents")).t = "Array"
  /\ Len(GetKey(decoded.entries, JStr("documents")).items) >= 1
  /\ GetKey(decoded.entries, JStr("documents")).items[1].t = "Map"
  /\ GetKey(GetKey(decoded.entries, JStr("documents")).items[1].entries, JStr("docType"))
       = P.docType
  /\ HasKey(GetKey(decoded.entries, JStr("documents")).items[1].entries,
            JStr("issuerSigned"))

\* C9: for a document P returned by parseIssuerSigned, MDoc([P]).encode()
\* decodes to a map with version "1.0", a non-empty documents array and a
\* status key, and documents[0] holds the docType of P and issuerSigned
C9_MDocEncodeIsDeviceResponse ==
  (wire # None /\ wire.from = "MDoc.encode")
    => /\ cborDecode(wire.bytes).ok
       /\ IsDeviceResponseOf(cborDecode(wire.bytes).val, wire.of)

\* A parsed document with an item has been wrapped and encoded
C9_Witness ==
  /\ wire # None
  /\ wire.from = "MDoc.encode"
  /\ ItemCount(wire.of.issuerSigned.nameSpaces) >= 1

Signing == outcome # None /\ outcome.op = "sign"

Rejected(message) == outcome.res = Throw("Error", message) /\ doc = None

\* C10: Document.sign with both issuerPrivateKey and signer rejects with
\* 'Cannot provide both issuerPrivateKey and signer', with neither with
\* 'Either issuerPrivateKey or signer must be provided'; no document is
\* produced, whatever the builder has set
C10_SignNeedsExactlyOneOfKeyAndSigner ==
  Signing =>
    /\ (Truthy(outcome.params.issuerPrivateKey) /\ Truthy(outcome.params.signer))
         => Rejected(<<"Cannot provide both issuerPrivateKey and signer">>)
    /\ (~Truthy(outcome.params.issuerPrivateKey) /\ ~Truthy(outcome.params.signer))
         => Rejected(<<"Either issuerPrivateKey or signer must be provided">>)

\* Both were given to a builder with no digest algorithm, validity info or
\* device key
C10_Witness ==
  /\ Signing
  /\ Truthy(outcome.params.issuerPrivateKey) /\ Truthy(outcome.params.signer)
  /\ builder.digestAlgorithm = Undefined
  /\ builder.validityInfo = Undefined
  /\ builder.deviceKeyInfo = Undefined
  /\ Rejected(<<"Cannot provide both issuerPrivateKey and signer">>)

SignedWithCallback == outcome # None /\ outcome.op = "signWithCallback"

\* What the first call of the signer ended with
FirstCall == CallSigner(outcome.signer, outcome.calls[1])

\* C11: one call of signWithCallback invokes the external signer exactly once,
\* in the one variant its markers choose: whatever its markers, its arity and
\* the outcome of the call, the signer is not invoked a second time in the other
\* variant after the first invocation failed
C11_SignerInvokedExactlyOnce ==
  SignedWithCallback => Len(outcome.calls) = 1

\* C12: when the signer fails with an error, signWithCallback fails with that
\* same error and produces no IssuerAuth, for marked and unmarked signers of
\* every arity
C12_SignerErrorIsPropagated ==
  (SignedWithCallback /\ ~FirstCall.ok) => outcome.res = FirstCall

\* The value the decoder made of the bytes on the wire
DecodedWire == cborDecode(wire.bytes).val

\* The nameSpaces Map of a decoded issuerSigned
RawNameSpacesOf(issuerSigned) == GetKeyEither(issuerSigned, JStr("nameSpaces"))

\* The decoded issuerSigned of the i-th document of the DeviceResponse on the wire
RawIssuerSignedAt(i) ==
  GetKeyEither(GetKeyEither(DecodedWire, JStr("documents")).items[i], JStr("issuerSigned"))

\* A prepared nameSpaces Map lists the namespaces of the decoded one, each
\* with the array of DataItems the decoder made, item by item
ListsDecodedItems(prepared, raw) ==
  /\ prepared.t = "Map"
  /\ KeySet(prepared.entries) = KeySet(raw.entries)
  /\ \A ns \in KeySet(raw.entries) : GetKey(prepared.entries, ns) = GetKey(raw.entries, ns)

\* Both prepare() and prepareIssuerSigned() of P list the decoded items of raw
PreparesDecodedItems(P, raw) ==
  /\ ListsDecodedItems(GetKey(GetKey(prepare(P).entries, JStr("issuerSigned")).entries,
                              JStr("nameSpaces")), raw)
  /\ ListsDecodedItems(GetKey(prepareIssuerSigned(P).entries, JStr("nameSpaces")), raw)

\* C13: for a document obtained by parse or parseIssuerSigned, prepare() and
\* prepareIssuerSigned() list under each namespace exactly the DataItems that
\* were decoded from the input, in the same order: none is re-encoded, added,
\* dropped or reordered
C13_PreparedItemsAreTheDecodedItems ==
  /\ (ParsedIssuerSigned /\ outcome.res.ok)
       => PreparesDecodedItems(outcome.res.val, RawNameSpacesOf(DecodedWire))
  /\ (Parsed /\ outcome.res.ok)
       => \A i \in 1..Len(outcome.res.val.documents) :
            PreparesDecodedItems(outcome.res.val.documents[i],
                                 RawNameSpacesOf(RawIssuerSignedAt(i)))

\* parse returned a document with two items in one namespace
C13_Witness ==
  /\ Parsed /\ outcome.res.ok
  /\ \E i \in 1..Len(outcome.res.val.documents) :
       \E ns \in KeySet(RawNameSpacesOf(RawIssuerSignedAt(i)).entries) :
         Len(GetKey(RawNameSpacesOf(RawIssuerSignedAt(i)).entries, ns).items) = 2

\* The documents array of a decoded DeviceResponse (Undefined without the key)
RawDocumentsOf(decoded) == GetKeyEither(decoded, JStr("documents"))

\* A decoded document lacks issuerSigned, or its issuerSigned lacks issuerAuth
\* or nameSpaces
LacksIssuerSignedField(document) ==
  \/ ~HasKeyEither(document, JStr("issuerSigned"))
  \/ ~HasKeyEither(GetKeyEither(document, JStr("issuerSigned")), JStr("issuerAuth"))
  \/ ~HasKeyEither(GetKeyEither(document, JStr("issuerSigned")), JStr("nameSpaces"))

\* A decoded DeviceResponse lacks a required field
LacksRequiredField(decoded) ==
  /\ decoded.t \in {"Map", "Object"}
  /\ \/ RawDocumentsOf(decoded).t # "Array"
     \/ \E i \in 1..Len(RawDocumentsOf(decoded).items) :
          LacksIssuerSignedField(RawDocumentsOf(decoded).items[i])

\* C14: for every decodable input whose DeviceResponse lacks the documents
\* array, or holds a document without issuerSigned, or an issuerSigned without
\* issuerAuth or nameSpaces, parse throws an MDLParseError, never an untyped
\* runtime error
C14_MissingFieldIsParseError ==
  (Parsed /\ cborDecode(wire.bytes).ok /\ LacksRequiredField(DecodedWire))
    => FailsWithParseError

\* The parsed document P is made of the decoded document: its docType and
\* the four elements of its issuerAuth
MadeOf(P, document) ==
  /\ P.docType = GetKeyEither(document, JStr("docType"))
  /\ getContentForEncoding(P.issuerSigned.issuerAuth)
       = GetKeyEither(GetKeyEither(document, JStr("issuerSigned")), JStr("issuerAuth"))

\* C15: the MDoc parse returns has exactly one parsed document per entry of
\* the input documents array; the i-th parsed document comes from the i-th
\* entry and carries its docType
C15_ParsePreservesDocumentOrder ==
  (Parsed /\ outcome.res.ok) =>
    /\ Len(outcome.res.val.documents) = Len(RawDocumentsOf(DecodedWire).items)
    /\ \A i \in 1..Len(outcome.res.val.documents) :
         MadeOf(outcome.res.val.documents[i], RawDocumentsOf(DecodedWire).items[i])

\* parse returned two documents of different docTypes
C15_Witness ==
  /\ Parsed /\ outcome.res.ok
  /\ Len(outcome.res.val.documents) = 2
  /\ outcome.res.val.documents[1].docType # outcome.res.val.documents[2].docType

\* A field of the content of a decoded DataItem
RawField(dataItem, key) == GetKey(DataItem_data(dataItem).val.entries, JStr(key))

\* P carries the docType argument and lists the namespaces of the decoded
\* nameSpaces Map
ReadsDocTypeAndNameSpaces(P, raw) ==
  /\ P.docType = outcome.arg
  /\ Len(issuerSignedNameSpaces(P)) = Len(raw.entries)
  /\ {issuerSignedNameSpaces(P)[i] : i \in 1..Len(raw.entries)} = KeySet(raw.entries)

\* The record holds exactly the elementIdentifiers of the items
HoldsIdentifiersOf(record, items) ==
  /\ record.ok
  /\ record.val.t = "Object"
  /\ KeySet(record.val.entries)
       = {RawField(items[j], "elementIdentifier") : j \in 1..Len(items)}

\* The items no later item of the namespace shares its identifier with
LastOfIdentifier(items) ==
  {j \in 1..Len(items) :
     \A k \in (j + 1)..Len(items) :
       RawField(items[k], "elementIdentifier") # RawField(items[j], "elementIdentifier")}

\* C16 as stated: for a document P returned by parseIssuerSigned(bytes,
\* docType), P.docType is the docType argument, P.issuerSignedNameSpaces lists
\* exactly the namespaces of the input nameSpaces map, and getIssuerNameSpace(ns)
\* is a record holding exactly the elementIdentifiers of the namespace's items,
\* each mapped to that item's elementValue
C16_RecordMapsEveryItem ==
  (ParsedIssuerSigned /\ outcome.res.ok) =>
    /\ ReadsDocTypeAndNameSpaces(outcome.res.val, RawNameSpacesOf(DecodedWire))
    /\ \A ns \in KeySet(RawNameSpacesOf(DecodedWire).entries) :
         /\ HoldsIdentifiersOf(getIssuerNameSpace(outcome.res.val, ns),
                               GetKey(RawNameSpacesOf(DecodedWire).entries, ns).items)
         /\ \A j \in 1..Len(GetKey(RawNameSpacesOf(DecodedWire).entries, ns).items) :
              GetKey(getIssuerNameSpace(outcome.res.val, ns).val.entries,
                     RawField(GetKey(RawNameSpacesOf(DecodedWire).entries, ns).items[j],
                              "elementIdentifier"))
                = RawField(GetKey(RawNameSpacesOf(DecodedWire).entries, ns).items[j],
                           "elementValue")

\* C16 amended: as above, with each elementIdentifier mapped to the
\* elementValue of the last item of the namespace that carries it (of the item
\* that carries it, when the identifiers of the namespace are distinct)
C16_RecordMapsLastItemOfIdentifier ==
  (ParsedIssuerSigned /\ outcome.res.ok) =>
    /\ ReadsDocTypeAndNameSpaces(outcome.res.val, RawNameSpacesOf(DecodedWire))
    /\ \A ns \in KeySet(RawNameSpacesOf(DecodedWire).entries) :
         /\ HoldsIdentifiersOf(getIssuerNameSpace(outcome.res.val, ns),
                               GetKey(RawNameSpacesOf(DecodedWire).entries, ns).items)
         /\ \A j \in LastOfIdentifier(GetKey(RawNameSpacesOf(DecodedWire).entries, ns).items) :
              GetKey(getIssuerNameSpace(outcome.res.val, ns).val.entries,
                     RawField(GetKey(RawNameSpacesOf(DecodedWire).entries, ns).items[j],
                              "elementIdentifier"))
                = RawField(GetKey(RawNameSpacesOf(DecodedWire).entries, ns).items[j],
                           "elementValue")

\* parseIssuerSigned returned a document with a namespace holding given_name
\* and family_name
C16_Witness ==
  /\ ParsedIssuerSigned /\ outcome.res.ok
  /\ \E ns \in KeySet(RawNameSpacesOf(DecodedWire).entries) :
       KeySet(getIssuerNameSpace(outcome.res.val, ns).val.entries)
         = {JStr("given_name"), JStr("family_name")}

\* The COSE integer of an algorithm name (RFC 8152, spec section 4.2)
CoseAlgorithm(name) ==
  CASE name = JStr("ES256") -> JInt(-7)
    [] name = JStr("ES384") -> JInt(-35)
    [] name = JStr("ES512") -> JInt(-36)
    [] name = JStr("EdDSA") -> JInt(-8)

\* The Sig_structure of a call: ["Signature1", the bytes of the protected
\* header map {1: alg}, an empty external_aad, the payload], encoded
ExpectedSigStructure ==
  cborEncode(JArr(<< JStr("Signature1"),
                     cborEncode(JMap(<< <<JInt(1), CoseAlgorithm(outcome.algorithm)>> >>)),
                     JBytes(WEmpty), outcome.payload >>))

\* C17: the bytes handed to a basic signer and context.data handed to a
\* contextual signer are the same Sig_structure, built from the encoded
\* protected-header map, an empty external_aad and the payload; the context
\* carries the alg argument as algorithm, the payload unchanged and the
\* caller's protected and unprotected headers
C17_BothVariantsSignTheSigStructure ==
  SignedWithCallback =>
    \A i \in 1..Len(outcome.calls) :
      IF outcome.calls[i].t = "Context"
        THEN /\ outcome.calls[i].data = ExpectedSigStructure
             /\ outcome.calls[i].algorithm = outcome.algorithm
             /\ outcome.calls[i].payload = outcome.payload
             /\ outcome.calls[i].protectedHeaders = outcome.protectedHeaders
             /\ outcome.calls[i].unprotectedHeaders = outcome.unprotectedHeaders
      ELSE outcome.calls[i] = ExpectedSigStructure

\* A contextual signer has signed under ES384 with a kid among the headers
C17_Witness ==
  /\ SignedWithCallback /\ outcome.res.ok
  /\ outcome.signer.isContextualSigner
  /\ outcome.algorithm = JStr("ES384")
  /\ outcome.calls[1].t = "Context"
  /\ outcome.calls[1].unprotectedHeaders # Undefined
  /\ outcome.calls[1].unprotectedHeaders.t = "Object"
  /\ HasKey(outcome.calls[1].unprotectedHeaders.entries, JStr("kid"))

\* C18: the IssuerAuth signWithCallback returns has as protected header
\* exactly the map {1: alg_int}, alg_int the COSE integer of the requested
\* algorithm (ES256 -7, ES384 -35, ES512 -36, EdDSA -8), never its name
C18_ProtectedHeaderIsAlgInteger ==
  (SignedWithCallback /\ outcome.res.ok) =>
    /\ outcome.res.val.protectedHeaders
         = JMap(<< <<JInt(1), CoseAlgorithm(outcome.algorithm)>> >>)
    /\ outcome.res.val.encodedProtectedHeaders
         = cborEncode(JMap(<< <<JInt(1), CoseAlgorithm(outcome.algorithm)>> >>))

\* An IssuerAuth was returned for EdDSA
C18_Witness ==
  /\ SignedWithCallback /\ outcome.res.ok
  /\ outcome.algorithm = JStr("EdDSA")
  /\ GetKey(outcome.res.val.protectedHeaders.entries, JInt(1)) = JInt(-8)

\* The labels a caller supplied: 33 for x5chain and 4 for kid, or the keys of
\* a Map that is already keyed by label
SuppliedLabels(unprotectedHeaders) ==
  IF unprotectedHeaders = Undefined THEN {}
  ELSE IF unprotectedHeaders.t = "Map" THEN KeySet(unprotectedHeaders.entries)
  ELSE (IF HasKey(unprotectedHeaders.entries, JStr("x5chain")) THEN {JInt(33)} ELSE {})
       \cup (IF HasKey(unprotectedHeaders.entries, JStr("kid")) THEN {JInt(4)} ELSE {})

\* C19: the IssuerAuth signWithCallback returns has as unprotected header a
\* map with x5chain under the integer label 33 and, when a kid was supplied, kid
\* under the integer label 4, and no label the caller did not supply; with no
\* unprotected headers supplied the map is empty
C19_UnprotectedHeaderLabels ==
  (SignedWithCallback /\ outcome.res.ok) =>
    /\ outcome.res.val.unprotectedHeaders.t = "Map"
    /\ KeySet(outcome.res.val.unprotectedHeaders.entries)
         = SuppliedLabels(outcome.unprotectedHeaders)
    /\ Len(outcome.res.val.unprotectedHeaders.entries)
         = Cardinality(SuppliedLabels(outcome.unprotectedHeaders))
    /\ (outcome.unprotectedHeaders # Undefined /\ outcome.unprotectedHeaders.t = "Object")
         => /\ GetKey(outcome.res.val.unprotectedHeaders.entries, JInt(33))
                 = GetKey(outcome.unprotectedHeaders.entries, JStr("x5chain"))
            /\ HasKey(outcome.unprotectedHeaders.entries, JStr("kid"))
                 => GetKey(outcome.res.val.unprotectedHeaders.entries, JInt(4))
                      = GetKey(outcome.unprotectedHeaders.entries, JStr("kid"))

\* An IssuerAuth was returned for a certificate and a kid
C19_Witness ==
  /\ SignedWithCallback /\ outcome.res.ok
  /\ outcome.unprotectedHeaders # Undefined
  /\ outcome.unprotectedHeaders.t = "Object"
  /\ HasKey(outcome.unprotectedHeaders.entries, JStr("kid"))
  /\ Len(outcome.res.val.unprotectedHeaders.entries) = 2

\* C20: a signer flagged isContextualSigner is called with the context
\* object, never with raw bytes, even when it is also flagged isBasicSigner or
\* has arity 1; a signer not flagged contextual that is flagged isBasicSigner
\* or has arity 1 is called with the raw Sig_structure bytes
C20_DispatchByMarker ==
  SignedWithCallback =>
    /\ outcome.signer.isContextualSigner
         => /\ outcome.calls # <<>>
            /\ \A i \in 1..Len(outcome.calls) : outcome.calls[i].t = "Context"
    /\ (~outcome.signer.isContextualSigner
        /\ (outcome.signer.isBasicSigner \/ outcome.signer.length = 1))
         => /\ outcome.calls # <<>>
            /\ \A i \in 1..Len(outcome.calls) : outcome.calls[i] = ExpectedSigStructure

\* A signer flagged contextual and basic, of arity 1, was handed the context
C20_Witness ==
  /\ SignedWithCallback
  /\ outcome.signer.isContextualSigner /\ outcome.signer.isBasicSigner
  /\ outcome.signer.length = 1
  /\ outcome.calls[1].t = "Context"

\* The MSO under the issuerAuth of a decoded document, if it has one that decodes
RawMSOOf(document) ==
  IF LacksIssuerSignedField(document) THEN Throw("None", <<>>)
  ELSE Bind(IssuerAuth_fromRaw(GetKeyEither(GetKeyEither(document, JStr("issuerSigned")),
                                            JStr("issuerAuth"))), decodePayload)

\* The MSO of a decoded document names another docType than the document, or
\* has no version or a version other than "1.0"
HasInvalidMSO(document) ==
  /\ RawMSOOf(document).ok
  /\ \/ GetKey(RawMSOOf(document).val.entries, JStr("docType"))
          # GetKeyEither(document, JStr("docType"))
     \/ GetKey(RawMSOOf(document).val.entries, JStr("version")) # JStr("1.0")

\* C21: parse is all-or-nothing over the documents: when the MSO of any one
\* document names a docType other than the document's own, or has no version
\* or a version that is not 1.0, parse throws an MDLParseError and returns no
\* MDoc, also when every other document is valid
C21_OneInvalidDocumentFailsTheParse ==
  (Parsed /\ cborDecode(wire.bytes).ok /\ DecodedWire.t \in {"Map", "Object"}
     /\ RawDocumentsOf(DecodedWire).t = "Array"
     /\ \E i \in 1..Len(RawDocumentsOf(DecodedWire).items) :
          HasInvalidMSO(RawDocumentsOf(DecodedWire).items[i]))
    => FailsWithParseError

\* prepare() of D is the docType wrapper around what prepareIssuerSigned() returns
DiffersByDocTypeWrapper(D) ==
  /\ prepare(D).t = "Map"
  /\ Len(prepare(D).entries) = 2
  /\ KeySet(prepare(D).entries) = {JStr("docType"), JStr("issuerSigned")}
  /\ GetKey(prepare(D).entries, JStr("docType")) = D.docType
  /\ ~HasKey(prepareIssuerSigned(D).entries, JStr("docType"))
  /\ GetKey(GetKey(prepare(D).entries, JStr("issuerSigned")).entries, JStr("nameSpaces"))
       = GetKey(prepareIssuerSigned(D).entries, JStr("nameSpaces"))
  /\ GetKey(GetKey(prepare(D).entries, JStr("issuerSigned")).entries, JStr("issuerAuth"))
       = GetKey(prepareIssuerSigned(D).entries, JStr("issuerAuth"))

\* C22: prepare() is a map with exactly the keys docType and issuerSigned, and
\* its issuerSigned value has the same nameSpaces (namespaces, items, order) and
\* the same issuerAuth content as prepareIssuerSigned(), which has no docType
C22_PrepareAgreesWithPrepareIssuerSigned ==
  /\ doc # None => DiffersByDocTypeWrapper(doc)
  /\ (ParsedIssuerSigned /\ outcome.res.ok) => DiffersByDocTypeWrapper(outcome.res.val)

\* A signed document holds two namespaces with an item each
C22_Witness ==
  /\ doc # None
  /\ Len(doc.issuerSigned.nameSpaces) = 2
  /\ Len(GetKey(prepareIssuerSigned(doc).entries, JStr("nameSpaces")).entries) = 2
  /\ \A i \in 1..2 : Len(doc.issuerSigned.nameSpaces[i][2]) = 1

\* C23: the read operations of IssuerSignedDocument (prepare,
\* prepareIssuerSigned, encodeIssuerSigned, getIssuerNameSpace,
\* issuerSignedNameSpaces) leave docType and issuerSigned unchanged: after any
\* sequence of them, and after writes to the Map an earlier prepareIssuerSigned
\* returned, encodeIssuerSigned returns the bytes of the first call
C23_ReadsLeaveTheDocumentUnchanged ==
  (Encoded /\ doc # None) =>
    /\ doc = wire.of
    /\ encodeIssuerSigned(doc) = wire.bytes
    /\ (outcome # None /\ outcome.op = "encodeIssuerSigned")
         => outcome.res = Ok(wire.bytes)

\* The caller has deleted a namespace from the Map it was handed, and the
\* document still lists it
C23_Witness ==
  /\ Encoded /\ doc # None
  /\ outcome # None /\ outcome.op = "prepareIssuerSigned"
  /\ Len(outcome.held.value.entries) < Len(doc.issuerSigned.nameSpaces)
  /\ Len(GetKey(outcome.res.val.entries, JStr("nameSpaces")).entries)
       = Len(doc.issuerSigned.nameSpaces)

\* The i-th document parse returned and the decoded document at that index
ParsedDocument(i) == outcome.res.val.documents[i]

RawDocument(i) == RawDocumentsOf(DecodedWire).items[i]

\* C24: parse returns a DeviceSignedDocument for exactly the input documents
\* that have a deviceSigned entry and a plain IssuerSignedDocument for every
\* other; both carry the input document's docType and its parsed issuerSigned
C24_DeviceSignedDocumentIffDeviceSigned ==
  (Parsed /\ outcome.res.ok) =>
    \A i \in 1..Len(outcome.res.val.documents) :
      /\ ParsedDocument(i).class
           = IF HasKeyEither(RawDocument(i), JStr("deviceSigned"))
               THEN "DeviceSignedDocument" ELSE "IssuerSignedDocument"
      /\ MadeOf(ParsedDocument(i), RawDocument(i))
      /\ Ok(ParsedDocument(i).issuerSigned.nameSpaces)
           = mapIssuerNameSpaces(RawNameSpacesOf(RawIssuerSignedAt(i)))

\* parse returned a DeviceSignedDocument and an IssuerSignedDocument
C24_Witness ==
  /\ Parsed /\ outcome.res.ok
  /\ Len(outcome.res.val.documents) = 2
  /\ ParsedDocument(1).class = "DeviceSignedDocument"
  /\ ParsedDocument(2).class = "IssuerSignedDocument"

\* The decoded deviceAuth of the i-th document on the wire
RawDeviceAuthAt(i) ==
  GetKeyEither(GetKeyEither(RawDocument(i), JStr("deviceSigned")), JStr("deviceAuth"))

\* The deviceAuth holds only the COSE object made of the raw array under key
HoldsOnly(deviceAuth, raw, key) ==
  /\ Len(deviceAuth.entries) = 1
  /\ KeySet(deviceAuth.entries) = {JStr(key)}
  /\ Ok(GetKey(deviceAuth.entries, JStr(key)))
       = IssuerAuth_fromRaw(GetKeyEither(raw, JStr(key)))

\* C25: every deviceAuth parse produces carries exactly one of deviceSignature
\* and deviceMac: the deviceSignature when the input deviceAuth holds one, also
\* beside a deviceMac, otherwise the deviceMac
C25_DeviceAuthHoldsExactlyOne ==
  (Parsed /\ outcome.res.ok) =>
    \A i \in 1..Len(outcome.res.val.documents) :
      ParsedDocument(i).class = "DeviceSignedDocument" =>
        IF HasKeyEither(RawDeviceAuthAt(i), JStr("deviceSignature"))
          THEN HoldsOnly(ParsedDocument(i).deviceSigned.deviceAuth, RawDeviceAuthAt(i),
                         "deviceSignature")
        ELSE HoldsOnly(ParsedDocument(i).deviceSigned.deviceAuth, RawDeviceAuthAt(i),
                       "deviceMac")

\* parse was handed a deviceAuth with a deviceSignature and a deviceMac
C25_Witness ==
  /\ Parsed /\ outcome.res.ok
  /\ \E i \in 1..Len(outcome.res.val.documents) :
       /\ ParsedDocument(i).class = "DeviceSignedDocument"
       /\ HasKeyEither(RawDeviceAuthAt(i), JStr("deviceSignature"))
       /\ HasKeyEither(RawDeviceAuthAt(i), JStr("deviceMac"))

\* What the last call of the signer ended with
LastCall == CallSigner(outcome.signer, outcome.calls[Len(outcome.calls)])

\* C26: the IssuerAuth signWithCallback returns has the input payload as its
\* payload and as its signature exactly the byte string the signer returned,
\* with no transformation and no check of its length or validity
C26_PayloadAndSignaturePassThrough ==
  (SignedWithCallback /\ LastCall.ok) =>
    /\ outcome.res.ok
    /\ outcome.res.val.payload = outcome.payload
    /\ outcome.res.val.signature = LastCall.val

\* An IssuerAuth was returned with the empty byte string a signer returned
C26_Witness ==
  /\ SignedWithCallback /\ outcome.res.ok
  /\ LastCall = Ok(JBytes(WEmpty))
  /\ outcome.res.val.signature = JBytes(WEmpty)

\* parse in the form that produced the outcome
ParseBy(form, bytes) == IF form = "parser.ts" THEN parse(bytes) ELSE parseMapOrObject(bytes)

\* The bytes of the same top-level item with version "1.0" and status 0
WithVersionAndStatusOK(bytes) ==
  JBytes([bytes.w EXCEPT !.pairs =
    SetKey(SetKey(@, WTstr("version"), WTstr("1.0")), WTstr("status"), WInt(0))])

\* C27: parse does not validate the top-level version or status: the MDoc it
\* returns carries the decoded version and status unchanged, and an input is
\* parsed without error whenever the same input with version "1.0" and status 0
\* is, that is whenever its documents are valid
C27_VersionAndStatusAreNotValidated ==
  (Parsed /\ cborDecode(wire.bytes).ok /\ DecodedWire.t \in {"Map", "Object"}) =>
    /\ outcome.res.ok =>
         /\ outcome.res.val.version = GetKeyEither(DecodedWire, JStr("version"))
         /\ outcome.res.val.status = GetKeyEither(DecodedWire, JStr("status"))
    /\ ParseBy(outcome.form, WithVersionAndStatusOK(wire.bytes)).ok => outcome.res.ok

\* parse returned an MDoc of version "2.0" and status 10
C27_Witness ==
  /\ Parsed /\ outcome.res.ok
  /\ outcome.form = "parser.ts"
  /\ outcome.res.val.version = JStr("2.0")
  /\ outcome.res.val.status = JInt(10)
  /\ Len(outcome.res.val.documents) = 1

\* decodedPayload of an IssuerAuth was read at least once
ReadPayload == outcome # None /\ outcome.op = "decodedPayload" /\ outcome.reads >= 1

\* The map under the payload bytes, out of its tag 24 when it has one
PayloadMap(payload) ==
  LET d == cborDecode(payload).val
  IN  IF d.t = "DataItem" THEN DataItem_data(d).val ELSE d

\* C28: decodedPayload is memoised and stable: the first read decodes the
\* payload, out of its Tag-24 DataItem when it has one; every later read
\* returns the identical MSO object without decoding again; and no read
\* changes the payload bytes
C28_DecodedPayloadIsMemoised ==
  ReadPayload =>
    /\ outcome.issuerAuth.sign1.payload = outcome.payload
    /\ outcome.first.ok =>
         /\ \A key \in {JStr("docType"), JStr("version"), JStr("digestAlgorithm")} :
              GetKey(outcome.first.val.value.entries, key)
                = GetKey(PayloadMap(outcome.payload).entries, key)
         /\ outcome.res = outcome.first
         /\ outcome.decodes = 1

\* A third read of the MSO under tag 24 returned the object of the first read
C28_Witness ==
  /\ ReadPayload
  /\ outcome.reads = 3
  /\ outcome.first.ok
  /\ cborDecode(outcome.payload).val.t = "DataItem"
  /\ outcome.res.val.ref = 1
  /\ GetKey(outcome.res.val.value.entries, JStr("docType")) = JStr("org.iso.18013.5.1.mDL")

====
